---- MODULE Spec2Model ----
(***************************************************************************)
(* A model of the flux load balancer: the backend pool (health tracking    *)
(* and selection), the gossip member list, the gossip message codec and    *)
(* the connection pool.  Every subsystem has its own next-state relation   *)
(* and specification over the shared variables; the variables of the other *)
(* subsystems stay at their initial values.                                *)
(***************************************************************************)
EXTENDS Integers, Sequences, FiniteSets, TLC

VARIABLES
    backends,       \* BackendPool.backends: Vec<BackendHealth>
    current_index,  \* BackendPool.current_index
    probe_hist,     \* history: polarity of the last local probe of each address
    member_list,    \* MemberList: local_member, members, order, cursor
    suspect_clock,  \* history: time since mark_suspect made a member Suspect
    returned,       \* history: results of the rotation since the last other operation
    pools,          \* ConnectionPool.pools: DashMap<SocketAddr, Vec<TcpStream>>
    shard_lock,     \* the DashMap guard held on each key's shard
    tasks,          \* the position of each proxy task in get / return_connection
    piggyback,      \* the member and backend updates the node has to piggy-back
    trimmed,        \* the message the last trim_to_fit returned
    socket,         \* the datagrams the last handler handed to the UDP socket
    locks,          \* the holders of the MemberList, BackendPool and pending-map locks
    pc,             \* the position of the receive loop, the tick loop and the helper tasks
    locals,         \* the local variables of each of these tasks
    pending_pings,  \* GossipLayer.pending_pings: the keys of the map
    pending_indirect_pings, \* GossipLayer.pending_indirect_pings
    acked,          \* history: whether an Ack of its target came during each helper's wait
    tick_pinged,    \* history: the peer that step 5 of the tick loop recorded in
                    \* pending_pings, for as long as that entry lasts
    check_tasks,    \* the probe tasks that check_all_backends spawned and has not joined
    join,           \* main's call of join_cluster: its locals, and the socket's unread answers
    cluster,        \* two proxies of one cluster: what each records about the same backend
    peer,           \* the node n1 as a program of its own: its member list, and the datagram
                    \* under way between it and the local node
    last_op         \* history: the last operation performed and its arguments

poolvars == <<backends, current_index, probe_hist>>
membervars == <<member_list, suspect_clock, returned>>
connvars == <<pools, shard_lock, tasks>>
codecvars == <<piggyback, trimmed, socket>>
datavars == <<tick_pinged, check_tasks, join, cluster, peer>>
probevars == <<locks, pc, locals, pending_pings, pending_indirect_pings, acked, datavars>>
vars == <<backends, current_index, probe_hist, member_list, suspect_clock, returned,
          pools, shard_lock, tasks, piggyback, trimmed, socket,
          locks, pc, locals, pending_pings, pending_indirect_pings, acked, tick_pinged, check_tasks,
          join, cluster, peer, last_op>>

NoOp == [op |-> "init"]

\* ------------------------------------------------------------------------
\* Bounds of the model
\* ------------------------------------------------------------------------

\* the consecutive_* counters are u32; probes are cut off at this count
MaxCount == 3
\* elapsed times are kept in whole seconds and saturate at this value
MaxElapsed == 7

\* ------------------------------------------------------------------------
\* Backend pool (src/src/backend/pool.rs, src/src/backend/health.rs)
\* ------------------------------------------------------------------------

\* the configured backend addresses, in configuration order
BackendAddrs == <<"b1", "b2">>
\* addresses a probe result or a gossiped update may name
AnyAddr == {"b1", "b2", "b9"}

\* Duration::from_secs(6), the trust-local window
TRUST_LOCAL_SECS == 6

\* BackendHealth::new.  elapsed_local is last_local_check.elapsed() in
\* seconds; last_check is written but never read and is left out.
BackendHealthNew(addr) ==
    [addr |-> addr,
     status |-> "Healthy",
     consecutive_successes |-> 0,
     consecutive_failures |-> 0,
     elapsed_local |-> 0]

\* BackendPool::new
BackendPoolNew(n) == [i \in 1..n |-> BackendHealthNew(BackendAddrs[i])]

\* backends.iter_mut().find(|b| b.backend.addr == addr): 0 when absent
RECURSIVE FindFrom(_, _, _)
FindFrom(bs, addr, i) ==
    IF i > Len(bs) THEN 0
    ELSE IF bs[i].addr = addr THEN i
    ELSE FindFrom(bs, addr, i + 1)

FindBackend(bs, addr) == FindFrom(bs, addr, 1)

\* the loop of select_backend; idx and start are 0-based as in the code
RECURSIVE SelectLoop(_, _, _)
SelectLoop(bs, idx, start) ==
    LET backend_health == bs[idx + 1]
        next == (idx + 1) % Len(bs)
    IN  IF backend_health.status = "Healthy"
        THEN [result |-> backend_health.addr, index |-> next]
        ELSE IF next = start
        THEN [result |-> "None", index |-> next]
        ELSE SelectLoop(bs, next, start)

\* a scan that gives up when the cursor wraps to 0 instead of to start_index
RECURSIVE SelectLoopWrapZero(_, _, _)
SelectLoopWrapZero(bs, idx, start) ==
    LET backend_health == bs[idx + 1]
        next == (idx + 1) % Len(bs)
    IN  IF backend_health.status = "Healthy"
        THEN [result |-> backend_health.addr, index |-> next]
        ELSE IF next = 0
        THEN [result |-> "None", index |-> next]
        ELSE SelectLoopWrapZero(bs, next, start)

SelectBackendMutant(bs, idx) ==
    IF Len(bs) = 0
    THEN [result |-> "None", index |-> idx]
    ELSE SelectLoopWrapZero(bs, idx, idx)

\* the status column of the pool
StatusOf(bs) == [i \in 1..Len(bs) |-> bs[i].status]

\* BackendPool::select_backend: the result and the new current_index
SelectBackend(bs, idx) ==
    IF Len(bs) = 0
    THEN [result |-> "None", index |-> idx]
    ELSE SelectLoop(bs, idx, idx)

select_backend ==
    LET r == SelectBackend(backends, current_index)
    IN  /\ current_index' = r.index
        /\ last_op' = [op |-> "select_backend", start |-> current_index,
                       result |-> r.result]
        /\ UNCHANGED <<backends, probe_hist, membervars, connvars, codecvars, probevars>>

\* a probe that flips the status on the first result of the other polarity
ProbeMutant(bh, is_healthy) ==
    IF is_healthy
    THEN [bh EXCEPT !.elapsed_local = 0,
                    !.consecutive_successes = @ + 1,
                    !.consecutive_failures = 0,
                    !.status = "Healthy"]
    ELSE [bh EXCEPT !.elapsed_local = 0,
                    !.consecutive_successes = 0,
                    !.consecutive_failures = @ + 1,
                    !.status = "Unhealthy"]

\* the body of update_health for the entry found
Probe(bh, is_healthy) ==
    IF is_healthy
    THEN LET successes == bh.consecutive_successes + 1
         IN  [bh EXCEPT !.elapsed_local = 0,
                        !.consecutive_successes = successes,
                        !.consecutive_failures = 0,
                        !.status = IF successes >= 2 /\ bh.status = "Unhealthy"
                                   THEN "Healthy" ELSE @]
    ELSE LET failures == bh.consecutive_failures + 1
         IN  [bh EXCEPT !.elapsed_local = 0,
                        !.consecutive_successes = 0,
                        !.consecutive_failures = failures,
                        !.status = IF failures >= 2 /\ bh.status = "Healthy"
                                   THEN "Unhealthy" ELSE @]

\* BackendPool::update_health
UpdateHealth(bs, addr, is_healthy) ==
    LET i == FindBackend(bs, addr)
    IN  IF i = 0 THEN bs ELSE [bs EXCEPT ![i] = Probe(bs[i], is_healthy)]

update_health(addr, is_healthy) ==
    LET i == FindBackend(backends, addr)
    IN  /\ i # 0 =>
              IF is_healthy
              THEN backends[i].consecutive_successes < MaxCount
              ELSE backends[i].consecutive_failures < MaxCount
        /\ backends' = UpdateHealth(backends, addr, is_healthy)
        /\ probe_hist' =
              IF i = 0 THEN probe_hist
              ELSE [probe_hist EXCEPT ![addr] = IF is_healthy THEN "success" ELSE "failure"]
        /\ last_op' = [op |-> "update_health", addr |-> addr, is_healthy |-> is_healthy,
                       flipped |-> StatusOf(backends') # StatusOf(backends)]
        /\ UNCHANGED <<current_index, membervars, connvars, codecvars, probevars>>

\* a reconciliation that trusts every gossiped "healthy"
ShouldApplyMutant(bh, is_healthy) ==
    LET trust_local == bh.elapsed_local < TRUST_LOCAL_SECS
    IN  IF trust_local
        THEN IF is_healthy THEN TRUE
             ELSE bh.status = "Healthy" /\ bh.consecutive_failures = 0
        ELSE TRUE

\* a reconciliation that lets a gossiped "unhealthy" through whenever the
\* backend is Healthy, whatever the local failures counted
ShouldApplyAnyHealthy(bh, is_healthy) ==
    LET trust_local == bh.elapsed_local < TRUST_LOCAL_SECS
    IN  IF trust_local
        THEN IF is_healthy THEN FALSE
             ELSE bh.status = "Healthy"
        ELSE TRUE

\* should_apply of apply_backend_update
ShouldApply(bh, is_healthy) ==
    LET trust_local == bh.elapsed_local < TRUST_LOCAL_SECS
    IN  IF trust_local
        THEN IF is_healthy THEN FALSE
             ELSE bh.status = "Healthy" /\ bh.consecutive_failures = 0
        ELSE TRUE

\* a reconciliation that changes the status and leaves the counters
ReconcileKeepsCounters(bh, is_healthy) ==
    LET new_status == IF is_healthy THEN "Healthy" ELSE "Unhealthy"
    IN  IF ~ShouldApply(bh, is_healthy) THEN bh
        ELSE [bh EXCEPT !.status = new_status]

\* a reconciliation that sets the counter of the new status only
ReconcileOneCounter(bh, is_healthy) ==
    LET new_status == IF is_healthy THEN "Healthy" ELSE "Unhealthy"
    IN  IF ~ShouldApply(bh, is_healthy) \/ bh.status = new_status THEN bh
        ELSE IF is_healthy
        THEN [bh EXCEPT !.status = new_status, !.consecutive_successes = 2]
        ELSE [bh EXCEPT !.status = new_status, !.consecutive_failures = 2]

\* the body of apply_backend_update for the entry found
Reconcile(bh, is_healthy) ==
    LET new_status == IF is_healthy THEN "Healthy" ELSE "Unhealthy"
    IN  IF ~ShouldApply(bh, is_healthy) THEN bh
        ELSE IF bh.status # new_status
        THEN IF is_healthy
             THEN [bh EXCEPT !.status = new_status,
                             !.consecutive_successes = 2,
                             !.consecutive_failures = 0]
             ELSE [bh EXCEPT !.status = new_status,
                             !.consecutive_failures = 2,
                             !.consecutive_successes = 0]
        ELSE bh

\* BackendPool::apply_backend_update; update = [backend_addr, is_healthy]
\* (from_member is only logged and timestamp is never read)
ApplyBackendUpdate(bs, update) ==
    LET i == FindBackend(bs, update.backend_addr)
    IN  IF i = 0 THEN bs
        ELSE [bs EXCEPT ![i] = Reconcile(bs[i], update.is_healthy)]

apply_backend_update(update) ==
    /\ backends' = ApplyBackendUpdate(backends, update)
    /\ last_op' = [op |-> "apply_backend_update", addr |-> update.backend_addr,
                   is_healthy |-> update.is_healthy, flipped |-> StatusOf(backends') # StatusOf(backends)]
    /\ UNCHANGED <<current_index, probe_hist, membervars, connvars, codecvars, probevars>>

\* one second passes: every Instant's elapsed() grows
Min(a, b) == IF a < b THEN a ELSE b

pool_second ==
    /\ \E i \in 1..Len(backends) : backends[i].elapsed_local < MaxElapsed
    /\ backends' = [i \in 1..Len(backends) |->
                      [backends[i] EXCEPT !.elapsed_local = Min(@ + 1, MaxElapsed)]]
    /\ last_op' = [op |-> "second"]
    /\ UNCHANGED <<current_index, probe_hist, membervars, connvars, codecvars, probevars>>

\* ------------------------------------------------------------------------
\* Member list (src/src/gossip/member_list.rs) and the processing of
\* received member updates (src/src/gossip/layer.rs)
\* ------------------------------------------------------------------------

\* the id of the local node and the ids of the peers
LocalId == "n0"
RemoteIds == {"n1", "n2", "n3"}
MemberIds == {LocalId} \cup RemoteIds
MemberStates == {"Alive", "Suspect", "Dead"}

\* the gossip address a node binds (MemberId::generate derives the id from it)
AddrOf == [id \in MemberIds |-> id]

\* the incarnations carried by received messages
MaxInc == 2
\* the ages of last_seen and suspect_at, in time units, saturate here
MaxAge == 3
\* the rotation cursor is a usize; the rotation is cut off at this value
MaxCursor == 8

\* MemberList.suspect_timeout (gossip.suspect_timeout_ms), in time units
suspect_timeout == 1

Member(id, state, incarnation) ==
    [id |-> id, addr |-> AddrOf[id], state |-> state, incarnation |-> incarnation]

\* MemberInfo::new.  last_seen is last_seen.elapsed() in time units, and
\* suspect_at is <<>> for None and <<suspect_at.elapsed()>> for Some.
MemberInfoNew(member) == [member |-> member, last_seen |-> 0, suspect_at |-> <<>>]

\* MemberList::new (the index map mirrors order and is left out)
MemberListNew(local_member) ==
    [local_member |-> local_member,
     members |-> (local_member.id :> MemberInfoNew(local_member)),
     order |-> <<local_member.id>>,
     cursor |-> 0]

\* the arrangements of a set of ids: an outcome of shuffle is chosen by naming one
IsInjective(f) == \A i, j \in DOMAIN f : f[i] = f[j] => i = j
PermsOf(ids) == {p \in [1..Cardinality(ids) -> ids] : IsInjective(p)}

InSeq(seq, x) == \E i \in 1..Len(seq) : seq[i] = x

\* shuffle: order rearranged as its ids are arranged in perm
Shuffle(order, perm) == SelectSeq(perm, LAMBDA id : InSeq(order, id))

\* an upsert that takes whatever it is given for a known member
UpsertMemberMutant(ml, member, perm) ==
    LET member_id == member.id
    IN  IF member_id \in DOMAIN ml.members
        THEN [ml EXCEPT !.members[member_id] =
                            [member |-> member, last_seen |-> 0, suspect_at |-> <<>>]]
        ELSE [ml EXCEPT !.members = @ @@ (member_id :> MemberInfoNew(member)),
                        !.order = Shuffle(Append(@, member_id), perm),
                        !.cursor = 0]

\* MemberList::upsert_member
UpsertMember(ml, member, perm) ==
    LET member_id == member.id
    IN  IF member_id \in DOMAIN ml.members
        THEN LET existing == ml.members[member_id]
             IN  IF member.incarnation > existing.member.incarnation
                 THEN [ml EXCEPT !.members[member_id] =
                            [member |-> member, last_seen |-> 0, suspect_at |-> <<>>]]
                 ELSE IF member.incarnation = existing.member.incarnation
                 THEN [ml EXCEPT !.members[member_id].last_seen = 0,
                                 !.members[member_id].member.state = member.state]
                 ELSE ml
        ELSE [ml EXCEPT !.members = @ @@ (member_id :> MemberInfoNew(member)),
                        !.order = Shuffle(Append(@, member_id), perm),
                        !.cursor = 0]

\* MemberList::mark_alive
MarkAlive(ml, member_id) ==
    IF member_id \in DOMAIN ml.members
    THEN [ml EXCEPT !.members[member_id].member.state = "Alive",
                    !.members[member_id].last_seen = 0,
                    !.members[member_id].suspect_at = <<>>]
    ELSE ml

\* a mark_suspect that forgets to stamp suspect_at
MarkSuspectMutant(ml, member_id) ==
    IF member_id \in DOMAIN ml.members /\ ml.members[member_id].member.state = "Alive"
    THEN [ml EXCEPT !.members[member_id].member.state = "Suspect"]
    ELSE ml

\* MemberList::mark_suspect
MarkSuspect(ml, member_id) ==
    IF member_id \in DOMAIN ml.members /\ ml.members[member_id].member.state = "Alive"
    THEN [ml EXCEPT !.members[member_id].member.state = "Suspect",
                    !.members[member_id].suspect_at = <<0>>]
    ELSE ml

\* MemberList::mark_dead
MarkDead(ml, member_id) ==
    IF member_id \in DOMAIN ml.members
    THEN [ml EXCEPT !.members[member_id].member.state = "Dead"]
    ELSE ml

\* MemberList::check_suspect_timeouts
CheckSuspectTimeouts(ml) ==
    LET to_mark_dead ==
            {id \in DOMAIN ml.members :
                /\ ml.members[id].member.state = "Suspect"
                /\ ml.members[id].suspect_at # <<>>
                /\ ml.members[id].suspect_at[1] > suspect_timeout}
    IN  [ml EXCEPT !.members =
            [id \in DOMAIN ml.members |->
                IF id \in to_mark_dead
                THEN MarkDead(ml, id).members[id]
                ELSE ml.members[id]]]

\* a prune_dead_members that forgets the rotation order
PruneDeadMembersMutant(ml, dead_timeout, perm) ==
    LET pruned_ids ==
            {id \in DOMAIN ml.members :
                /\ ml.members[id].member.state = "Dead"
                /\ ml.members[id].last_seen > dead_timeout}
    IN  [ml EXCEPT !.members = [id \in DOMAIN ml.members \ pruned_ids |-> ml.members[id]],
                   !.cursor = 0]

\* MemberList::prune_dead_members
PruneDeadMembers(ml, dead_timeout, perm) ==
    LET pruned_ids ==
            {id \in DOMAIN ml.members :
                /\ ml.members[id].member.state = "Dead"
                /\ ml.members[id].last_seen > dead_timeout}
    IN  [ml EXCEPT !.members = [id \in DOMAIN ml.members \ pruned_ids |-> ml.members[id]],
                   !.order = Shuffle(SelectSeq(ml.order, LAMBDA id : id \notin pruned_ids), perm),
                   !.cursor = 0]

\* the loop of get_random_alive_member with n iterations left
RECURSIVE RotateLoop(_, _, _)
RotateLoop(ml, cursor, n) ==
    IF n = 0
    THEN [result |-> "None", cursor |-> cursor]
    ELSE LET member_id == ml.order[(cursor % Len(ml.order)) + 1]
         IN  IF /\ member_id \in DOMAIN ml.members
                /\ ml.members[member_id].member.state = "Alive"
                /\ ml.members[member_id].member.id # ml.local_member.id
             THEN [result |-> member_id, cursor |-> cursor + 1]
             ELSE RotateLoop(ml, cursor + 1, n - 1)

\* a rotation that restarts from the head of the order on every call
GetRandomAliveMemberMutant(ml) ==
    IF Len(ml.order) = 0
    THEN [result |-> "None", cursor |-> ml.cursor]
    ELSE RotateLoop(ml, 0, Len(ml.order))

\* MemberList::get_random_alive_member: the member returned and the new cursor
GetRandomAliveMember(ml) ==
    IF Len(ml.order) = 0
    THEN [result |-> "None", cursor |-> ml.cursor]
    ELSE RotateLoop(ml, ml.cursor, Len(ml.order))

\* MemberList::increment_incarnation
IncrementIncarnation(ml) ==
    LET incarnation == ml.local_member.incarnation + 1
    IN  IF ml.local_member.id \in DOMAIN ml.members
        THEN [ml EXCEPT !.local_member.incarnation = incarnation,
                        !.members[ml.local_member.id].member.incarnation = incarnation]
        ELSE [ml EXCEPT !.local_member.incarnation = incarnation]

IsAccusation(ml, update) ==
    /\ update.member_id = ml.local_member.id
    /\ update.state \in {"Suspect", "Dead"}

UpdateMember(update) ==
    [id |-> update.member_id, addr |-> update.addr,
     state |-> update.state, incarnation |-> update.incarnation]

\* a loop body that applies accusations like any other update
ProcessUpdateMutant(ml, update, perm) == UpsertMember(ml, UpdateMember(update), perm)

\* the loop body of process_member_updates
ProcessUpdate(ml, update, perm) ==
    IF IsAccusation(ml, update)
    THEN IncrementIncarnation(ml)
    ELSE UpsertMember(ml, UpdateMember(update), perm)

\* GossipLayer::process_member_updates
RECURSIVE ProcessMemberUpdates(_, _, _)
ProcessMemberUpdates(ml, updates, perm) ==
    IF updates = <<>>
    THEN ml
    ELSE ProcessMemberUpdates(ProcessUpdate(ml, Head(updates), perm), Tail(updates), perm)

\* one time unit passes: every Instant's elapsed() grows
MemberTick(ml) ==
    [ml EXCEPT !.members =
        [id \in DOMAIN ml.members |->
            [ml.members[id] EXCEPT
                !.last_seen = Min(@ + 1, MaxAge),
                !.suspect_at = IF @ = <<>> THEN @ ELSE <<Min(@[1] + 1, MaxAge)>>]]]

\* the shuffle outcomes to choose from when the ids in new_ids may be inserted:
\* one suffices when nothing is inserted, and so nothing shuffled
ShuffleChoices(ml, new_ids) ==
    IF new_ids \subseteq DOMAIN ml.members
    THEN {ml.order}
    ELSE PermsOf(DOMAIN ml.members \cup new_ids)

NoClock == [id \in MemberIds |-> <<>>]

\* a Member as the MemberUpdate that carries it
UpdateOf(member) ==
    [member_id |-> member.id, addr |-> member.addr, state |-> member.state,
     incarnation |-> member.incarnation]

\* the incarnations that the updates of a message carry about each member
AboutMember(updates, id) == {i \in 1..Len(updates) : updates[i].member_id = id}
Carried(updates) ==
    [id \in MemberIds |-> {updates[i].incarnation : i \in AboutMember(updates, id)}]

\* upsert_member as the Ping and Ack handlers call it for the sender
upsert_member(member) ==
    \E perm \in ShuffleChoices(member_list, {member.id}) :
        /\ member_list' = UpsertMember(member_list, member, perm)
        /\ suspect_clock' = [suspect_clock EXCEPT ![member.id] = <<>>]
        /\ returned' = <<>>
        /\ last_op' = [op |-> "upsert_member", id |-> member.id,
                       carried |-> Carried(<<UpdateOf(member)>>),
                       was |-> IF member.id \in DOMAIN member_list.members
                               THEN <<member_list.members[member.id].member>>
                               ELSE <<>>]
        /\ UNCHANGED <<poolvars, connvars, codecvars, probevars>>

Accusations(ml, updates) == {i \in 1..Len(updates) : IsAccusation(ml, updates[i])}
AboutLocal(ml, updates) == {i \in 1..Len(updates) : updates[i].member_id = ml.local_member.id}
Max(S) == CHOOSE x \in S : \A y \in S : y <= x

process_member_updates(updates) ==
    \E perm \in ShuffleChoices(member_list,
                                {updates[i].member_id : i \in 1..Len(updates)}) :
        /\ member_list.local_member.incarnation
              + Cardinality(Accusations(member_list, updates)) <= MaxInc
        /\ member_list' = ProcessMemberUpdates(member_list, updates, perm)
        /\ suspect_clock' = [id \in MemberIds |->
                                IF \E i \in 1..Len(updates) : updates[i].member_id = id
                                THEN <<>> ELSE suspect_clock[id]]
        /\ returned' = <<>>
        /\ last_op' = [op |-> "process_member_updates",
                       accusations |-> Cardinality(Accusations(member_list, updates)),
                       only_accusations |->
                           Cardinality(Accusations(member_list, updates)) = Len(updates),
                       ends_accused |->
                           /\ AboutLocal(member_list, updates) # {}
                           /\ Max(AboutLocal(member_list, updates))
                                 \in Accusations(member_list, updates),
                       size |-> Len(updates), carried |-> Carried(updates)]
        /\ UNCHANGED <<poolvars, connvars, codecvars, probevars>>

mark_alive(member_id) ==
    /\ member_list' = MarkAlive(member_list, member_id)
    /\ suspect_clock' = [suspect_clock EXCEPT ![member_id] = <<>>]
    /\ returned' = <<>>
    /\ last_op' = [op |-> "mark_alive", id |-> member_id]
    /\ UNCHANGED <<poolvars, connvars, codecvars, probevars>>

mark_suspect(member_id) ==
    /\ member_list' = MarkSuspect(member_list, member_id)
    /\ suspect_clock' =
          IF /\ member_id \in DOMAIN member_list.members
             /\ member_list.members[member_id].member.state = "Alive"
          THEN [suspect_clock EXCEPT ![member_id] = <<0>>]
          ELSE suspect_clock
    /\ returned' = <<>>
    /\ last_op' = [op |-> "mark_suspect", id |-> member_id]
    /\ UNCHANGED <<poolvars, connvars, codecvars, probevars>>

check_suspect_timeouts ==
    /\ member_list' = CheckSuspectTimeouts(member_list)
    /\ returned' = <<>>
    /\ last_op' = [op |-> "check_suspect_timeouts"]
    /\ UNCHANGED <<suspect_clock, poolvars, connvars, codecvars, probevars>>

prune_dead_members(dead_timeout) ==
    \E perm \in PermsOf(DOMAIN member_list.members) :
        /\ member_list' = PruneDeadMembers(member_list, dead_timeout, perm)
        /\ suspect_clock' = [id \in MemberIds |->
                                IF id \in DOMAIN member_list'.members
                                THEN suspect_clock[id] ELSE <<>>]
        /\ returned' = <<>>
        /\ last_op' = [op |-> "prune_dead_members",
                       pruned |-> DOMAIN member_list.members \ DOMAIN member_list'.members]
        /\ UNCHANGED <<poolvars, connvars, codecvars, probevars>>

get_random_alive_member ==
    LET r == GetRandomAliveMember(member_list)
    IN  /\ r.cursor <= MaxCursor
        /\ member_list' = [member_list EXCEPT !.cursor = r.cursor]
        /\ returned' = Append(returned, r.result)
        /\ last_op' = [op |-> "get_random_alive_member", result |-> r.result]
        /\ UNCHANGED <<suspect_clock, poolvars, connvars, codecvars, probevars>>

member_tick ==
    /\ \/ \E id \in DOMAIN member_list.members : member_list.members[id].last_seen < MaxAge
       \/ \E id \in MemberIds : suspect_clock[id] # <<>> /\ suspect_clock[id][1] < MaxAge
    /\ member_list' = MemberTick(member_list)
    /\ suspect_clock' = [id \in MemberIds |->
                            IF suspect_clock[id] = <<>> THEN <<>>
                            ELSE <<Min(suspect_clock[id][1] + 1, MaxAge)>>]
    /\ last_op' = [op |-> "tick"]
    /\ UNCHANGED <<returned, poolvars, connvars, codecvars, probevars>>

\* ------------------------------------------------------------------------
\* Connection pool (connection_pool/mod.rs) and the proxy tasks that use it
\* ------------------------------------------------------------------------

\* the number of concurrent proxy tasks (one per accepted client)
MaxTasks == 2
Tasks == 1..MaxTasks
ConnAddrs == {"b1", "b2"}

\* ConnectionPool.max_size_per_backend
max_size_per_backend == 1

\* A TcpStream is modelled by what try_read would report on it: "idle"
\* (WouldBlock), "readable" (Ok(n), n > 0), "closed" (Ok(0)) or "reset" (Err)
StreamStates == {"idle", "readable", "closed", "reset"}
NoStream == "none"
NoLock == 0

IdleTask ==
    [pc |-> "idle", backend |-> "none", stream |-> NoStream, has_room |-> FALSE,
     ended |-> "none"]

\* ConnectionPool::new
ConnectionPoolNew == [a \in {} |-> <<>>]

\* is_connection_alive
IsConnectionAlive(stream) ==
    CASE stream = "closed" -> FALSE
      [] stream = "readable" -> TRUE
      [] stream = "idle" -> TRUE
      [] OTHER -> FALSE

\* a DashMap guard on a key is granted only while no other guard is held on
\* it (DashMap locks whole shards; one lock per key allows every interleaving
\* that a coarser sharding allows)
GuardFreeMutant(backend) == TRUE
GuardFree(backend) == shard_lock[backend] = NoLock

\* the ceiling test of return_connection
HasRoom(pool) == Len(pool) < max_size_per_backend

\* get, line 26: pools.get_mut(&backend)
get_lookup(t, backend) ==
    /\ tasks[t].pc = "idle"
    /\ GuardFree(backend)
    /\ IF backend \in DOMAIN pools
       THEN /\ shard_lock' = [shard_lock EXCEPT ![backend] = t]
            /\ tasks' = [tasks EXCEPT ![t] = [IdleTask EXCEPT !.pc = "get_pop", !.backend = backend]]
       ELSE /\ tasks' = [tasks EXCEPT ![t] = [IdleTask EXCEPT !.pc = "connect", !.backend = backend]]
            /\ UNCHANGED shard_lock
    /\ last_op' = [op |-> "get_lookup", task |-> t, backend |-> backend]
    /\ UNCHANGED <<pools, poolvars, membervars, codecvars, probevars>>

\* get, lines 27-36: one iteration of the pop loop, under the guard
get_pop(t) ==
    /\ tasks[t].pc = "get_pop"
    /\ LET backend == tasks[t].backend
           pool == pools[backend]
       IN IF pool = <<>>
          THEN /\ tasks' = [tasks EXCEPT ![t].pc = "connect"]
               /\ shard_lock' = [shard_lock EXCEPT ![backend] = NoLock]
               /\ last_op' = [op |-> "get_pop", task |-> t, backend |-> backend, result |-> "empty"]
               /\ UNCHANGED pools
          ELSE LET stream == pool[Len(pool)]
               IN /\ pools' = [pools EXCEPT ![backend] = SubSeq(pool, 1, Len(pool) - 1)]
                  /\ IF IsConnectionAlive(stream)
                     THEN /\ tasks' = [tasks EXCEPT ![t].pc = "splice", ![t].stream = stream]
                          /\ shard_lock' = [shard_lock EXCEPT ![backend] = NoLock]
                          /\ last_op' = [op |-> "get_pop", task |-> t, backend |-> backend,
                                         result |-> "reused"]
                     ELSE /\ last_op' = [op |-> "get_pop", task |-> t, backend |-> backend,
                                         result |-> "discarded"]
                          /\ UNCHANGED <<tasks, shard_lock>>
    /\ UNCHANGED <<poolvars, membervars, codecvars, probevars>>

\* get, lines 38-43: TcpStream::connect and configure_keepalive
get_connect(t, connected) ==
    /\ tasks[t].pc = "connect"
    /\ tasks' = [tasks EXCEPT ![t] = IF connected
                                     THEN [@ EXCEPT !.pc = "splice", !.stream = "idle"]
                                     ELSE IdleTask]
    /\ last_op' = [op |-> "get_connect", task |-> t, connected |-> connected]
    /\ UNCHANGED <<pools, shard_lock, poolvars, membervars, codecvars, probevars>>

\* what an iteration of the select! loop of copy_with_pooling meets: a read
\* of the client or of the backend gives Ok(0), Ok(n) or Err, and the
\* write_all of the n bytes to the other side succeeds or fails
SpliceEvents ==
    {"client_eof", "client_data", "client_read_err", "backend_write_err",
     "backend_eof", "backend_data", "backend_read_err", "client_write_err"}

\* a loop that takes the EOF of the backend for a clean close too
CopyWithPoolingLax(event) ==
    CASE event \in {"client_eof", "backend_eof"} -> "Ok"
      [] event \in {"client_data", "backend_data"} -> "Continue"
      [] OTHER -> "Err"

\* copy_with_pooling, lines 98-128: the loop goes on after bytes were copied,
\* returns Ok(()) on the EOF of the client and Err on everything else
CopyWithPooling(event) ==
    CASE event = "client_eof" -> "Ok"
      [] event \in {"client_data", "backend_data"} -> "Continue"
      [] OTHER -> "Err"

\* handle_connection, lines 74-82, over one iteration of the loop of
\* copy_with_pooling: the backend connection goes to return_connection only
\* when copy_with_pooling returned Ok, and is dropped on Err.  stream is what
\* the backend connection holds when the loop is left.
copy_with_pooling(t, event, stream) ==
    /\ tasks[t].pc = "splice"
    /\ tasks' = [tasks EXCEPT ![t] =
                    CASE CopyWithPooling(event) = "Ok"
                            -> [@ EXCEPT !.pc = "return", !.stream = stream, !.ended = event]
                      [] CopyWithPooling(event) = "Continue" -> @
                      [] OTHER -> IdleTask]
    /\ last_op' = [op |-> "copy_with_pooling", task |-> t, event |-> event]
    /\ UNCHANGED <<pools, shard_lock, poolvars, membervars, codecvars, probevars>>

\* return_connection, line 47: pools.entry(backend).or_insert_with(Vec::new)
return_entry(t) ==
    /\ tasks[t].pc = "return"
    /\ LET backend == tasks[t].backend
       IN /\ GuardFree(backend)
          /\ shard_lock' = [shard_lock EXCEPT ![backend] = t]
          /\ pools' = IF backend \in DOMAIN pools
                      THEN pools
                      ELSE [a \in DOMAIN pools \cup {backend} |->
                               IF a = backend THEN <<>> ELSE pools[a]]
          /\ last_op' = [op |-> "return_entry", task |-> t, backend |-> backend]
    /\ tasks' = [tasks EXCEPT ![t].pc = "return_check"]
    /\ UNCHANGED <<poolvars, membervars, codecvars, probevars>>

\* return_connection, line 49: pool.len() < self.max_size_per_backend
return_check(t) ==
    /\ tasks[t].pc = "return_check"
    /\ tasks' = [tasks EXCEPT ![t].pc = "return_push",
                              ![t].has_room = HasRoom(pools[tasks[t].backend])]
    /\ last_op' = [op |-> "return_check", task |-> t, backend |-> tasks[t].backend]
    /\ UNCHANGED <<pools, shard_lock, poolvars, membervars, codecvars, probevars>>

\* return_connection, lines 50-60: push or drop, and the guard goes out of
\* scope
return_push(t) ==
    /\ tasks[t].pc = "return_push"
    /\ LET backend == tasks[t].backend
       IN /\ pools' = IF tasks[t].has_room
                      THEN [pools EXCEPT ![backend] = Append(@, tasks[t].stream)]
                      ELSE pools
          /\ shard_lock' = [shard_lock EXCEPT ![backend] = NoLock]
          /\ last_op' = [op |-> "return_connection", task |-> t, backend |-> backend,
                         dropped |-> ~tasks[t].has_room]
    /\ tasks' = [tasks EXCEPT ![t] = IdleTask]
    /\ UNCHANGED <<poolvars, membervars, codecvars, probevars>>

\* the backend closes, resets or writes to a connection that sits in the pool
stream_event(backend, i, stream) ==
    /\ backend \in DOMAIN pools
    /\ i \in 1..Len(pools[backend])
    /\ pools[backend][i] = "idle"
    /\ pools' = [pools EXCEPT ![backend][i] = stream]
    /\ last_op' = [op |-> "stream_event", backend |-> backend]
    /\ UNCHANGED <<shard_lock, tasks, poolvars, membervars, codecvars, probevars>>

ConnInit ==
    /\ pools = ConnectionPoolNew
    /\ shard_lock = [a \in ConnAddrs |-> NoLock]
    /\ tasks = [t \in Tasks |-> IdleTask]

NextConn ==
    \/ \E t \in Tasks, backend \in ConnAddrs : get_lookup(t, backend)
    \/ \E t \in Tasks : get_pop(t)
    \/ \E t \in Tasks, connected \in BOOLEAN : get_connect(t, connected)
    \/ \E t \in Tasks, event \in SpliceEvents, stream \in {"idle", "readable"} :
          copy_with_pooling(t, event, stream)
    \/ \E t \in Tasks : return_entry(t)
    \/ \E t \in Tasks : return_check(t)
    \/ \E t \in Tasks : return_push(t)
    \/ \E backend \in ConnAddrs, i \in 1..max_size_per_backend,
          stream \in StreamStates \ {"idle"} : stream_event(backend, i, stream)

\* ------------------------------------------------------------------------
\* Message codec (gossip/messages.rs) and the send sites of gossip/layer.rs
\* ------------------------------------------------------------------------

MAX_UDP_PACKET_SIZE == 1400

\* the number of member updates and backend updates a node has to piggy-back
MaxMemberUpdates == 9
MaxBackendUpdates == 22

Digit(d) == SubSeq("0123456789", d + 1, d + 1)
RECURSIVE Decimal(_)
Decimal(n) == IF n < 10 THEN Digit(n) ELSE Decimal(n \div 10) \o Digit(n % 10)

\* the gossip address of node k and MemberId::generate of it
NodeAddr(k) == "10.0.0." \o Decimal(k) \o ":7946"
Generate(addr) == "flux-" \o addr
NodeId(k) == Generate(NodeAddr(k))
BackendAddr(j) == "10.0.1." \o Decimal(j) \o ":8080"
LocalNode == 1

\* a MemberId that did not come from MemberId::generate: the target_id of a
\* received IndirectPing is whatever the datagram carried
RECURSIVE Repeat(_, _)
Repeat(s, n) == IF n = 0 THEN "" ELSE s \o Repeat(s, n - 1)
ForeignId == Repeat("0123456789abcdef", 88)
TargetIds == {NodeId(2), ForeignId}

\* the piggy-backed updates: get_member_updates maps over the member map,
\* get_backend_health_updates over the backends, from_member rewritten to the
\* local id
MemberUpdateOf(k) ==
    [member_id |-> NodeId(k), addr |-> NodeAddr(k), state |-> "Alive", incarnation |-> 0]
BackendUpdateOf(j) ==
    [backend_addr |-> BackendAddr(j), is_healthy |-> TRUE, from_member |-> NodeId(LocalNode),
     timestamp |-> 0]
NoPiggyback == [member_updates |-> <<>>, backend_updates |-> <<>>]

\* GossipMessage::Ping / Ack
Piggybacked(kind, member_updates, backend_updates) ==
    [kind |-> kind, from |-> NodeId(LocalNode), from_addr |-> NodeAddr(LocalNode),
     incarnation |-> 0, member_updates |-> member_updates, backend_updates |-> backend_updates]
\* GossipMessage::IndirectPing
IndirectPing(target_id, target_addr) ==
    [kind |-> "IndirectPing", from |-> NodeId(LocalNode), from_addr |-> NodeAddr(LocalNode),
     target_id |-> target_id, target_addr |-> target_addr]
\* GossipMessage::IndirectAck
IndirectAck(target_id, target_responded) ==
    [kind |-> "IndirectAck", from |-> NodeId(LocalNode), target_id |-> target_id,
     target_responded |-> target_responded]

\* bincode's fixed-width encoding: u32 enum tags, u64 lengths and integers,
\* one byte per bool, an IPv4 SocketAddr as tag, four octets and the port
TagSize == 4
U64Size == 8
BoolSize == 1
StringSize(s) == U64Size + Len(s)
SocketAddrSize(addr) == TagSize + 4 + 2
MemberUpdateSize(u) ==
    StringSize(u.member_id) + SocketAddrSize(u.addr) + TagSize + U64Size
BackendUpdateSize(u) ==
    SocketAddrSize(u.backend_addr) + BoolSize + StringSize(u.from_member) + U64Size
RECURSIVE MemberUpdatesSize(_)
MemberUpdatesSize(updates) ==
    IF updates = <<>> THEN 0
    ELSE MemberUpdateSize(Head(updates)) + MemberUpdatesSize(Tail(updates))
RECURSIVE BackendUpdatesSize(_)
BackendUpdatesSize(updates) ==
    IF updates = <<>> THEN 0
    ELSE BackendUpdateSize(Head(updates)) + BackendUpdatesSize(Tail(updates))

\* bincode::serialize(msg).len()
SerializedSize(msg) ==
    CASE msg.kind \in {"Ping", "Ack"} ->
            TagSize + StringSize(msg.from) + SocketAddrSize(msg.from_addr) + U64Size
            + U64Size + MemberUpdatesSize(msg.member_updates)
            + U64Size + BackendUpdatesSize(msg.backend_updates)
      [] msg.kind = "IndirectPing" ->
            TagSize + StringSize(msg.from) + SocketAddrSize(msg.from_addr)
            + StringSize(msg.target_id) + SocketAddrSize(msg.target_addr)
      [] msg.kind = "IndirectAck" ->
            TagSize + StringSize(msg.from) + StringSize(msg.target_id) + BoolSize

\* estimated_size
EstimatedSize(msg) == SerializedSize(msg)

\* to_bytes: the bytes (their length, and the message they encode) or Err
ToBytesMutant(msg) == [ok |-> TRUE, len |-> SerializedSize(msg), msg |-> msg]
ToBytes(msg) ==
    IF SerializedSize(msg) > MAX_UDP_PACKET_SIZE
    THEN [ok |-> FALSE]
    ELSE [ok |-> TRUE, len |-> SerializedSize(msg), msg |-> msg]

\* trim_to_fit, lines 129-135: pop from the end of member_updates and push
RECURSIVE TrimMemberUpdates(_, _)
TrimMemberUpdates(msg, member_updates) ==
    IF EstimatedSize(msg) < MAX_UDP_PACKET_SIZE /\ member_updates # <<>>
    THEN TrimMemberUpdates(
            [msg EXCEPT !.member_updates = Append(@, member_updates[Len(member_updates)])],
            SubSeq(member_updates, 1, Len(member_updates) - 1))
    ELSE msg

\* trim_to_fit, lines 137-143
RECURSIVE TrimBackendUpdates(_, _)
TrimBackendUpdates(msg, backend_updates) ==
    IF EstimatedSize(msg) < MAX_UDP_PACKET_SIZE /\ backend_updates # <<>>
    THEN TrimBackendUpdates(
            [msg EXCEPT !.backend_updates = Append(@, backend_updates[Len(backend_updates)])],
            SubSeq(backend_updates, 1, Len(backend_updates) - 1))
    ELSE msg

\* trim_to_fit
TrimToFit(msg) ==
    IF msg.kind \in {"Ping", "Ack"}
    THEN TrimBackendUpdates(
            TrimMemberUpdates([msg EXCEPT !.member_updates = <<>>, !.backend_updates = <<>>],
                              msg.member_updates),
            msg.backend_updates)
    ELSE msg

\* to_bytes and, when it is Ok, socket.send_to
SendTo(msg) == IF ToBytes(msg).ok THEN <<ToBytes(msg)>> ELSE <<>>

\* the member map or the configured backends grow by one: one more update to
\* piggy-back on the next message
member_update_added ==
    /\ Len(piggyback.member_updates) < MaxMemberUpdates
    /\ piggyback' = [piggyback EXCEPT !.member_updates =
                        Append(@, MemberUpdateOf(Len(@) + 1))]
    /\ trimmed' = <<>>
    /\ socket' = <<>>
    /\ last_op' = [op |-> "member_update_added"]
    /\ UNCHANGED <<poolvars, membervars, connvars, probevars>>

backend_update_added ==
    /\ Len(piggyback.backend_updates) < MaxBackendUpdates
    /\ piggyback' = [piggyback EXCEPT !.backend_updates =
                        Append(@, BackendUpdateOf(Len(@) + 1))]
    /\ trimmed' = <<>>
    /\ socket' = <<>>
    /\ last_op' = [op |-> "backend_update_added"]
    /\ UNCHANGED <<poolvars, membervars, connvars, probevars>>

\* a Ping or Ack is built from the local info, trimmed, encoded and sent
SendPiggybacked(site, kind) ==
    LET msg == TrimToFit(Piggybacked(kind, piggyback.member_updates,
                                     piggyback.backend_updates))
    IN /\ trimmed' = <<msg>>
       /\ socket' = SendTo(msg)
       /\ last_op' = [op |-> site, size |-> SerializedSize(msg), encoded |-> ToBytes(msg).ok]
       /\ UNCHANGED <<piggyback, poolvars, membervars, connvars, probevars>>

\* handle_message, Ping arm, lines 146-155: the Ack reply
reply_ack == SendPiggybacked("reply_ack", "Ack")

\* start_gossip_loop, lines 479-499: the Ping of the tick
tick_ping == SendPiggybacked("tick_ping", "Ping")

\* handle_message, IndirectPing arm, lines 234-245: the Ping sent on behalf of
\* the requester
helper_ping == SendPiggybacked("helper_ping", "Ping")

\* handle_message, IndirectPing arm, lines 254-269: the IndirectAck
indirect_ack(target_id, target_responded) ==
    LET msg == IndirectAck(target_id, target_responded)
    IN /\ socket' = SendTo(msg)
       /\ trimmed' = <<>>
       /\ last_op' = [op |-> "indirect_ack", size |-> SerializedSize(msg),
                      encoded |-> ToBytes(msg).ok]
       /\ UNCHANGED <<piggyback, poolvars, membervars, connvars, probevars>>

\* send_indirect_pings, lines 648-662: one IndirectPing per prober
send_indirect_pings(target_id, probers) ==
    LET msg == IndirectPing(target_id, NodeAddr(2))
    IN /\ socket' = IF probers = 2 THEN SendTo(msg) \o SendTo(msg) ELSE SendTo(msg)
       /\ trimmed' = <<>>
       /\ last_op' = [op |-> "send_indirect_pings", size |-> SerializedSize(msg),
                      encoded |-> ToBytes(msg).ok]
       /\ UNCHANGED <<piggyback, poolvars, membervars, connvars, probevars>>

\* join_cluster, lines 531-557: the Ping to a seed, with no updates
join_ping ==
    LET msg == Piggybacked("Ping", <<>>, <<>>)
    IN /\ socket' = SendTo(msg)
       /\ trimmed' = <<>>
       /\ last_op' = [op |-> "join_ping", size |-> SerializedSize(msg),
                      encoded |-> ToBytes(msg).ok]
       /\ UNCHANGED <<piggyback, poolvars, membervars, connvars, probevars>>

CodecInit ==
    /\ piggyback = NoPiggyback
    /\ trimmed = <<>>
    /\ socket = <<>>

NextCodec ==
    \/ member_update_added
    \/ backend_update_added
    \/ reply_ack
    \/ tick_ping
    \/ helper_ping
    \/ \E target_id \in TargetIds, target_responded \in BOOLEAN :
          indirect_ack(target_id, target_responded)
    \/ \E target_id \in TargetIds, probers \in 1..2 : send_indirect_pings(target_id, probers)
    \/ join_ping

\* ------------------------------------------------------------------------
\* The tasks of the gossip layer and their locks (gossip/layer.rs)
\* ------------------------------------------------------------------------

\* the elements of a sequence
RangeOf(seq) == {seq[i] : i \in 1..Len(seq)}

\* the IndirectPing helper tasks that can be alive at once
Helpers == {"h1"}
GossipTasks == {"rx", "tick"} \cup Helpers

\* the tasks of the data path: HealthChecker::run and the handle_connection
\* tasks of two clients
Clients == {"c1", "c2"}
DataTasks == {"hc"} \cup Clients
LockNames == {"member_list", "backend_pool", "pending_pings", "pending_indirect_pings"}

\* the peers of the probe rounds
Peers == {"n1", "n2"}

\* the pings of the tick loop between two resets of the rotation cursor
MaxProbeCursor == 2

\* the responses kept in an IndirectPingState
MaxResponses == 3

\* num_probers of the tick loop and num_indirect of send_indirect_pings
num_probers == 3

\* the age of an IndirectPingState against the timeouts of the tick loop:
\* 0 within check_timeout, 1 past check_timeout, 2 past hard_timeout
PastCheck == 1
PastHard == 2

\* Duration::from_secs(60), the horizon the tick loop prunes with, in time
\* units of 30 s
PruneHorizon == 2

\* tokio Mutex::lock, RwLock::read and RwLock::write: a guard is granted when
\* no conflicting guard is held
CanAcquireMutant(lk, l, mode) == TRUE
CanAcquire(lk, l, mode) ==
    IF mode = "read" THEN \A h \in lk[l] : h[2] = "read" ELSE lk[l] = {}
Acquire(lk, l, task, mode) == [lk EXCEPT ![l] = @ \cup {<<task, mode>>}]
Release(lk, l, task) == [lk EXCEPT ![l] = {h \in @ : h[1] # task}]
ReleaseAll(lk, task) == [l \in LockNames |-> {h \in lk[l] : h[1] # task}]

\* the lock and mode that a task is about to acquire at each position.  A
\* task that holds no guard and needs one only starts when the guard is free:
\* the first guard of a handler, of the helper and of the tick is taken in
\* the step that starts it.
Wants(p) ==
    CASE p \in {"ra_lock_ml", "ria_lock_ml", "t2_lock_ml", "t3_lock_ml", "t5_lock_ml"}
            -> <<"member_list", "write">>
      [] p \in {"t4_read_ml", "sip_read_ml", "sip_read_ml2", "t5_read"}
            -> <<"member_list", "read">>
      [] p \in {"ria_lock_pd", "h_lock_pd", "h_check", "t4_lock_pd", "t5_lock_pd", "t5_unpend"}
            -> <<"pending_pings", "lock">>
      [] p \in {"t2_lock_pi", "t3_lock_pi", "t4_lock_pi", "sip_lock_pi"}
            -> <<"pending_indirect_pings", "lock">>
      [] p \in {"hc_read", "sel_lock"}
            -> <<"backend_pool", "lock">>
      [] OTHER -> <<>>

\* the positions at which a task hands a datagram to the socket
SendPositions == {"h_send_ping", "h_send_ack", "sip_send", "t5_send"}

\* last_op after a step of one of the tasks
TaskStep == [op |-> "task_step"]

NoLocals == [target_id |-> "none"]

\* a task takes the guard it wants and moves on; what it releases is said by
\* the action
Free(l, mode) == CanAcquire(locks, l, mode)
Locked(task) ==
    /\ Wants(pc[task]) # <<>>
    /\ Free(Wants(pc[task])[1], Wants(pc[task])[2])
WithGuard(task) == Acquire(locks, Wants(pc[task])[1], task, Wants(pc[task])[2])
Goto(task, p) == pc' = [pc EXCEPT ![task] = p]

\* a write of the layer to the member list, with the histories of the list
MemberWrite(ml, clock) ==
    /\ member_list' = ml
    /\ suspect_clock' = clock
    /\ returned' = <<>>
ClockCleared(id) == [suspect_clock EXCEPT ![id] = <<>>]
ClockStarted(id) ==
    IF id \in DOMAIN member_list.members /\ member_list.members[id].member.state = "Alive"
    THEN [suspect_clock EXCEPT ![id] = <<0>>]
    ELSE suspect_clock

\* the tasks whose guards keep a task from the guard it is about to acquire
Blockers(task) ==
    IF Wants(pc[task]) = <<>>
    THEN {}
    ELSE {g[1] : g \in {h \in locks[Wants(pc[task])[1]] :
                            /\ h[1] # task
                            /\ Wants(pc[task])[2] = "read" => h[2] # "read"}}
Blocked(task) == Blockers(task) # {}

\* some tasks wait for guards that only tasks among them can release
Deadlocked ==
    \E stuck \in SUBSET GossipTasks \ {{}} :
        \A task \in stuck : Blocked(task) /\ Blockers(task) \subseteq stuck

\* the guards a task holds
Holds(task, l, mode) == <<task, mode>> \in locks[l]

\* what a step of a task leaves alone outside the layer
TaskFrame ==
    /\ last_op' = TaskStep
    /\ UNCHANGED <<poolvars, connvars, codecvars, datavars>>

\* the same for a step that takes ids out of pending_pings: the Ping of the
\* tick loop to one of them is no longer outstanding
Unpinged(ids) == IF tick_pinged \in ids THEN "none" ELSE tick_pinged
UnpingFrame(ids) ==
    /\ last_op' = TaskStep
    /\ tick_pinged' = Unpinged(ids)
    /\ UNCHANGED <<poolvars, connvars, codecvars, check_tasks, join, cluster, peer>>

ProbeInit ==
    /\ locks = [l \in LockNames |-> {}]
    /\ pc = [task \in GossipTasks \cup DataTasks |-> "idle"]
    /\ locals = [task \in GossipTasks \cup DataTasks |-> NoLocals]
    /\ tick_pinged = "none"
    /\ check_tasks = <<>>
    /\ join = [pc |-> "start", seed_nodes |-> <<>>, retry |-> 0, seed |-> 0,
               successful_contacts |-> 0, rounds |-> 0, contacts |-> 0,
               contacted |-> {}, inbox |-> {}, result |-> "none"]
    /\ cluster = [health |-> [p \in {"P1", "P2"} |-> BackendHealthNew("b1")],
                  verdict |-> "none"]
    /\ peer = [member_list |-> MemberListNew(Member("n1", "Alive", 0)),
               wire |-> <<>>, was |-> "none"]
    /\ pending_pings = {}
    /\ pending_indirect_pings = [id \in {} |-> 0]
    /\ acked = [h \in Helpers |-> FALSE]

\* --- the receive loop: run and handle_message ---

\* the helpers that have recorded their target and not yet looked it up again
Waiting(id) ==
    {h \in Helpers : pc[h] \in {"h_send_ping", "h_check"} /\ locals[h].target_id = id}

\* handle_message, Ack arm, lines 167-170: the sender leaves pending_pings
rx_ack(from) ==
    /\ pc["rx"] = "idle"
    /\ Free("pending_pings", "lock")
    /\ pending_pings' = pending_pings \ {from}
    /\ acked' = [h \in Helpers |-> acked[h] \/ h \in Waiting(from)]
    /\ Goto("rx", "ra_lock_ml")
    /\ locals' = [locals EXCEPT !["rx"] = [target_id |-> from]]
    /\ UNCHANGED <<locks, pending_indirect_pings, membervars>>
    /\ UnpingFrame({from})

\* lines 172-186: the sender is upserted and marked alive; the message
\* carries no updates
ra_lock_ml ==
    /\ pc["rx"] = "ra_lock_ml"
    /\ Locked("rx")
    /\ \E perm \in ShuffleChoices(member_list, {locals["rx"].target_id}) :
          MemberWrite(MarkAlive(UpsertMember(member_list,
                                            Member(locals["rx"].target_id, "Alive", 0), perm),
                                locals["rx"].target_id),
                      ClockCleared(locals["rx"].target_id))
    /\ Goto("rx", "idle")
    /\ locals' = [locals EXCEPT !["rx"] = NoLocals]
    /\ UNCHANGED <<locks, pending_pings, pending_indirect_pings, acked>>
    /\ TaskFrame

\* handle_message, IndirectPing arm, lines 201-227: a helper task is spawned;
\* it reads the local info under member_list.read() and backend_pool.read()
rx_indirect_ping(h, target_id) ==
    /\ pc["rx"] = "idle"
    /\ pc[h] = "idle"
    /\ Free("member_list", "read")
    /\ Free("backend_pool", "read")
    /\ Goto(h, "h_lock_pd")
    /\ locals' = [locals EXCEPT ![h] = [target_id |-> target_id]]
    /\ UNCHANGED <<locks, pending_pings, pending_indirect_pings, acked, membervars>>
    /\ TaskFrame

\* handle_message, IndirectAck arm, lines 283-293: the response is recorded
\* under the pending_indirect_pings lock, which stays held on a positive one
rx_indirect_ack(target_id, target_responded) ==
    /\ pc["rx"] = "idle"
    /\ Free("pending_indirect_pings", "lock")
    /\ target_id \in DOMAIN pending_indirect_pings
          => Len(pending_indirect_pings[target_id].responses) < MaxResponses
    /\ LET pending == target_id \in DOMAIN pending_indirect_pings
       IN /\ pending_indirect_pings' =
                IF pending
                THEN [pending_indirect_pings EXCEPT ![target_id].responses =
                         Append(@, target_responded)]
                ELSE pending_indirect_pings
          /\ IF pending /\ target_responded
             THEN /\ locks' = Acquire(locks, "pending_indirect_pings", "rx", "lock")
                  /\ Goto("rx", "ria_lock_ml")
                  /\ locals' = [locals EXCEPT !["rx"] = [target_id |-> target_id]]
             ELSE UNCHANGED <<locks, pc, locals>>
    /\ UNCHANGED <<pending_pings, acked, membervars>>
    /\ TaskFrame

\* lines 294-295: member_list.write() and mark_alive
ria_lock_ml ==
    /\ pc["rx"] = "ria_lock_ml"
    /\ Locked("rx")
    /\ locks' = WithGuard("rx")
    /\ MemberWrite(MarkAlive(member_list, locals["rx"].target_id),
                   ClockCleared(locals["rx"].target_id))
    /\ Goto("rx", "ria_lock_pd")
    /\ UNCHANGED <<locals, pending_pings, pending_indirect_pings, acked>>
    /\ TaskFrame

Without(pending, id) == [other \in DOMAIN pending \ {id} |-> pending[other]]

\* lines 297-302: the target leaves both pending maps and the three guards go
\* out of scope
ria_lock_pd ==
    /\ pc["rx"] = "ria_lock_pd"
    /\ Locked("rx")
    /\ pending_pings' = pending_pings \ {locals["rx"].target_id}
    /\ pending_indirect_pings' = Without(pending_indirect_pings, locals["rx"].target_id)
    /\ locks' = ReleaseAll(locks, "rx")
    /\ Goto("rx", "idle")
    /\ locals' = [locals EXCEPT !["rx"] = NoLocals]
    /\ last_op' = [op |-> "ria_lock_pd", target_id |-> locals["rx"].target_id]
    /\ tick_pinged' = Unpinged({locals["rx"].target_id})
    /\ UNCHANGED <<acked, membervars, poolvars, connvars, codecvars,
                   check_tasks, join, cluster, peer>>

\* --- the helper task of an IndirectPing, lines 206-270 ---

\* lines 229-232: the target enters pending_pings
h_lock_pd(h) ==
    /\ pc[h] = "h_lock_pd"
    /\ Locked(h)
    /\ pending_pings' = pending_pings \cup {locals[h].target_id}
    /\ acked' = [acked EXCEPT ![h] = FALSE]
    /\ Goto(h, "h_send_ping")
    /\ UNCHANGED <<locks, locals, pending_indirect_pings, membervars>>
    /\ TaskFrame

\* lines 234-247: the Ping goes to the target and the task sleeps 500 ms
h_send_ping(h) ==
    /\ pc[h] = "h_send_ping"
    /\ Goto(h, "h_check")
    /\ UNCHANGED <<locks, locals, pending_pings, pending_indirect_pings, acked, membervars>>
    /\ TaskFrame

\* lines 249-252: target_responded = !pending.contains_key(&target_id)
h_check(h) ==
    /\ pc[h] = "h_check"
    /\ Locked(h)
    /\ locals' = [locals EXCEPT ![h] =
                     [target_id |-> @.target_id,
                      target_responded |-> @.target_id \notin pending_pings]]
    /\ Goto(h, "h_send_ack")
    /\ UNCHANGED <<locks, pending_pings, pending_indirect_pings, acked, membervars>>
    /\ TaskFrame

\* lines 254-269: the IndirectAck is sent and the task ends
h_send_ack(h) ==
    /\ pc[h] = "h_send_ack"
    /\ Goto(h, "idle")
    /\ locals' = [locals EXCEPT ![h] = NoLocals]
    /\ acked' = [acked EXCEPT ![h] = FALSE]
    /\ UNCHANGED <<locks, pending_pings, pending_indirect_pings, membervars>>
    /\ TaskFrame

\* --- the tick loop: start_gossip_loop ---

\* a get_all_members that lists the local member too
GetAllMembersMutant(ml) == DOMAIN ml.members

\* MemberList::get_all_members, as ids: every member but the local one
GetAllMembers(ml) ==
    {id \in RangeOf(ml.order) : id \in DOMAIN ml.members /\ id # ml.local_member.id}

\* the locals of the tick loop: the member at hand, timed_out with the
\* members of it that were past hard_timeout at now, and members_to_indirect
TickLocals(target_id, timed_out, past_hard, targets) ==
    [target_id |-> target_id, timed_out |-> timed_out, past_hard |-> past_hard,
     targets |-> targets]

\* lines 344-350 and 372-375: the interval fires and check_suspect_timeouts
\* runs under the write lock; prune says whether tick_count % 30 == 0.  On
\* the other ticks get_adaptive_timeout follows under the read lock.
tick_start(prune) ==
    /\ pc["tick"] = "idle"
    /\ Free("member_list", "write")
    /\ MemberWrite(CheckSuspectTimeouts(member_list), suspect_clock)
    /\ Goto("tick", IF prune THEN "t2_lock_ml" ELSE "t3_lock_pi")
    /\ locals' = [locals EXCEPT !["tick"] = TickLocals("none", {}, {}, {})]
    /\ UNCHANGED <<locks, pending_pings, pending_indirect_pings, acked>>
    /\ TaskFrame

\* lines 353-354: prune_dead_members under the write lock, which stays held
t2_lock_ml ==
    /\ pc["tick"] = "t2_lock_ml"
    /\ Locked("tick")
    /\ locks' = WithGuard("tick")
    /\ \E perm \in PermsOf(DOMAIN member_list.members) :
          LET ml == PruneDeadMembers(member_list, PruneHorizon, perm)
          IN MemberWrite(ml, [id \in MemberIds |->
                                 IF id \in DOMAIN ml.members THEN suspect_clock[id] ELSE <<>>])
    /\ Goto("tick", "t2_lock_pi")
    /\ UNCHANGED <<locals, pending_pings, pending_indirect_pings, acked>>
    /\ TaskFrame

\* lines 356-375: the Dead members leave pending_indirect_pings and both
\* guards go out of scope; get_adaptive_timeout follows under the read lock
t2_lock_pi ==
    /\ pc["tick"] = "t2_lock_pi"
    /\ Locked("tick")
    /\ LET dead_member_ids == {id \in GetAllMembers(member_list) :
                                  member_list.members[id].member.state = "Dead"}
       IN pending_indirect_pings' =
             [id \in DOMAIN pending_indirect_pings \ dead_member_ids |->
                 pending_indirect_pings[id]]
    /\ locks' = ReleaseAll(locks, "tick")
    /\ Goto("tick", "t3_lock_pi")
    /\ UNCHANGED <<locals, pending_pings, acked, membervars>>
    /\ TaskFrame

\* lines 377-387: pending_indirect_pings is locked, now is taken and the
\* entries past check_timeout collected
t3_lock_pi ==
    /\ pc["tick"] = "t3_lock_pi"
    /\ Locked("tick")
    /\ locks' = WithGuard("tick")
    /\ locals' = [locals EXCEPT
                     !["tick"].timed_out =
                         {id \in DOMAIN pending_indirect_pings :
                             pending_indirect_pings[id].age >= PastCheck},
                     !["tick"].past_hard =
                         {id \in DOMAIN pending_indirect_pings :
                             pending_indirect_pings[id].age >= PastHard}]
    /\ Goto("tick", "t3_loop")
    /\ UNCHANGED <<pending_pings, pending_indirect_pings, acked, membervars>>
    /\ TaskFrame

AnySuccess(state) == \E i \in 1..Len(state.responses) : state.responses[i]

\* a loop that decides every round that is past check_timeout
t3_loopMutant ==
    /\ pc["tick"] = "t3_loop"
    /\ IF locals["tick"].timed_out = {}
       THEN /\ locks' = ReleaseAll(locks, "tick")
            /\ Goto("tick", "t4_lock_pd")
            /\ UNCHANGED <<locals, pending_indirect_pings>>
       ELSE \E member_id \in locals["tick"].timed_out :
               /\ UNCHANGED locks
               /\ IF member_id \notin DOMAIN pending_indirect_pings
                  THEN /\ UNCHANGED <<pc, pending_indirect_pings>>
                       /\ locals' = [locals EXCEPT !["tick"].timed_out = @ \ {member_id}]
                  ELSE LET state == pending_indirect_pings[member_id]
                           got_all_responses == TRUE
                           timeout_exceeded == member_id \in locals["tick"].past_hard
                       IN IF (got_all_responses \/ timeout_exceeded) /\ ~AnySuccess(state)
                          THEN /\ Goto("tick", "t3_lock_ml")
                               /\ locals' = [locals EXCEPT !["tick"].target_id = member_id]
                               /\ UNCHANGED pending_indirect_pings
                          ELSE /\ UNCHANGED pc
                               /\ locals' = [locals EXCEPT
                                                !["tick"].timed_out = @ \ {member_id}]
                               /\ pending_indirect_pings' =
                                     IF got_all_responses \/ timeout_exceeded
                                     THEN Without(pending_indirect_pings, member_id)
                                     ELSE pending_indirect_pings
    /\ UNCHANGED <<pending_pings, acked, membervars>>
    /\ TaskFrame

\* lines 389-409: one iteration over timed_out, up to the write lock that
\* mark_suspect needs; after the last one the guard goes out of scope
t3_loop ==
    /\ pc["tick"] = "t3_loop"
    /\ IF locals["tick"].timed_out = {}
       THEN /\ locks' = ReleaseAll(locks, "tick")
            /\ Goto("tick", "t4_lock_pd")
            /\ UNCHANGED <<locals, pending_indirect_pings>>
       ELSE \E member_id \in locals["tick"].timed_out :
               /\ UNCHANGED locks
               /\ IF member_id \notin DOMAIN pending_indirect_pings
                  THEN /\ UNCHANGED <<pc, pending_indirect_pings>>
                       /\ locals' = [locals EXCEPT !["tick"].timed_out = @ \ {member_id}]
                  ELSE LET state == pending_indirect_pings[member_id]
                           got_all_responses == Len(state.responses) >= num_probers
                           timeout_exceeded == member_id \in locals["tick"].past_hard
                       IN IF (got_all_responses \/ timeout_exceeded) /\ ~AnySuccess(state)
                          THEN /\ Goto("tick", "t3_lock_ml")
                               /\ locals' = [locals EXCEPT !["tick"].target_id = member_id]
                               /\ UNCHANGED pending_indirect_pings
                          ELSE /\ UNCHANGED pc
                               /\ locals' = [locals EXCEPT
                                                !["tick"].timed_out = @ \ {member_id}]
                               /\ pending_indirect_pings' =
                                     IF got_all_responses \/ timeout_exceeded
                                     THEN Without(pending_indirect_pings, member_id)
                                     ELSE pending_indirect_pings
    /\ UNCHANGED <<pending_pings, acked, membervars>>
    /\ TaskFrame

\* lines 402-405: mark_suspect under the write lock, taken while the
\* pending_indirect_pings guard is held; then the entry is removed
t3_lock_ml ==
    /\ pc["tick"] = "t3_lock_ml"
    /\ Locked("tick")
    /\ LET member_id == locals["tick"].target_id
       IN /\ MemberWrite(MarkSuspect(member_list, member_id), ClockStarted(member_id))
          /\ pending_indirect_pings' = Without(pending_indirect_pings, member_id)
          /\ locals' = [locals EXCEPT !["tick"].timed_out = @ \ {member_id},
                                      !["tick"].target_id = "none"]
    /\ Goto("tick", "t3_loop")
    /\ UNCHANGED <<locks, pending_pings, acked>>
    /\ TaskFrame

\* line 412: pending_pings.lock()
t4_lock_pd ==
    /\ pc["tick"] = "t4_lock_pd"
    /\ Locked("tick")
    /\ locks' = WithGuard("tick")
    /\ Goto("tick", "t4_lock_pi")
    /\ UNCHANGED <<locals, pending_pings, pending_indirect_pings, acked, membervars>>
    /\ TaskFrame

\* lines 413-415: pending_indirect_pings.lock(); with nothing pending both
\* guards go out of scope
t4_lock_pi ==
    /\ pc["tick"] = "t4_lock_pi"
    /\ Locked("tick")
    /\ IF pending_pings = {}
       THEN /\ locks' = ReleaseAll(locks, "tick")
            /\ Goto("tick", "t5_lock_ml")
       ELSE /\ locks' = WithGuard("tick")
            /\ Goto("tick", "t4_read_ml")
    /\ UNCHANGED <<locals, pending_pings, pending_indirect_pings, acked, membervars>>
    /\ TaskFrame

\* lines 416-427: members_to_indirect is computed under the read lock, and
\* the pending_indirect_pings guard dropped; pending_pings stays locked
t4_read_ml ==
    /\ pc["tick"] = "t4_read_ml"
    /\ Locked("tick")
    /\ locals' = [locals EXCEPT !["tick"].targets =
                     {id \in pending_pings :
                         /\ id \notin DOMAIN pending_indirect_pings
                         /\ id \in GetAllMembers(member_list)}]
    /\ locks' = Release(locks, "pending_indirect_pings", "tick")
    /\ Goto("tick", "t4_loop")
    /\ UNCHANGED <<pending_pings, pending_indirect_pings, acked, membervars>>
    /\ TaskFrame

\* lines 429-446: the next target goes to send_indirect_pings; after the last
\* one pending_pings is cleared and its guard goes out of scope
t4_loop ==
    /\ pc["tick"] = "t4_loop"
    /\ IF locals["tick"].targets = {}
       THEN /\ pending_pings' = {}
            /\ tick_pinged' = "none"
            /\ locks' = ReleaseAll(locks, "tick")
            /\ Goto("tick", "t5_lock_ml")
            /\ UNCHANGED locals
       ELSE \E target \in locals["tick"].targets :
               /\ locals' = [locals EXCEPT !["tick"].target_id = target,
                                           !["tick"].targets = @ \ {target}]
               /\ Goto("tick", "sip_read_ml")
               /\ UNCHANGED <<locks, pending_pings, tick_pinged>>
    /\ UNCHANGED <<pending_indirect_pings, acked, membervars>>
    /\ last_op' = TaskStep
    /\ UNCHANGED <<poolvars, connvars, codecvars, check_tasks, join, cluster, peer>>

\* send_indirect_pings, lines 606-616: the members that can probe for target
Probers(ml, target_id) ==
    {id \in DOMAIN ml.members :
        /\ ml.members[id].member.state = "Alive"
        /\ id # ml.local_member.id
        /\ id # target_id}

\* send_indirect_pings, lines 606-621: the probers are read under the read
\* lock; without any the call returns
sip_read_ml ==
    /\ pc["tick"] = "sip_read_ml"
    /\ Locked("tick")
    /\ Goto("tick", IF Probers(member_list, locals["tick"].target_id) = {}
                    THEN "t4_loop" ELSE "sip_lock_pi")
    /\ UNCHANGED <<locks, locals, pending_pings, pending_indirect_pings, acked, membervars>>
    /\ TaskFrame

\* send_indirect_pings, lines 630-640: the IndirectPingState of the round is
\* inserted
sip_lock_pi ==
    /\ pc["tick"] = "sip_lock_pi"
    /\ Locked("tick")
    /\ pending_indirect_pings' =
          [id \in DOMAIN pending_indirect_pings \cup {locals["tick"].target_id} |->
              IF id = locals["tick"].target_id THEN [responses |-> <<>>, age |-> 0]
              ELSE pending_indirect_pings[id]]
    /\ Goto("tick", "sip_read_ml2")
    /\ UNCHANGED <<locks, locals, pending_pings, acked, membervars>>
    /\ TaskFrame

\* send_indirect_pings, lines 642-646: the local info is read
sip_read_ml2 ==
    /\ pc["tick"] = "sip_read_ml2"
    /\ Locked("tick")
    /\ Goto("tick", "sip_send")
    /\ UNCHANGED <<locks, locals, pending_pings, pending_indirect_pings, acked, membervars>>
    /\ TaskFrame

\* send_indirect_pings, lines 648-665: the IndirectPings go to the probers
sip_send ==
    /\ pc["tick"] = "sip_send"
    /\ Goto("tick", "t4_loop")
    /\ UNCHANGED <<locks, locals, pending_pings, pending_indirect_pings, acked, membervars>>
    /\ TaskFrame

\* lines 449-452: get_random_alive_member under the write lock
t5_lock_ml ==
    /\ pc["tick"] = "t5_lock_ml"
    /\ Locked("tick")
    /\ LET r == GetRandomAliveMember(member_list)
       IN /\ r.cursor <= MaxProbeCursor
          /\ MemberWrite([member_list EXCEPT !.cursor = r.cursor], suspect_clock)
          /\ IF r.result = "None"
             THEN /\ Goto("tick", "idle")
                  /\ locals' = [locals EXCEPT !["tick"] = NoLocals]
             ELSE /\ Goto("tick", "t5_lock_pd")
                  /\ locals' = [locals EXCEPT !["tick"] = [target_id |-> r.result]]
    /\ UNCHANGED <<locks, pending_pings, pending_indirect_pings, acked>>
    /\ TaskFrame

\* lines 455-458: the target enters pending_pings
t5_lock_pd ==
    /\ pc["tick"] = "t5_lock_pd"
    /\ Locked("tick")
    /\ pending_pings' = pending_pings \cup {locals["tick"].target_id}
    /\ tick_pinged' = locals["tick"].target_id
    /\ Goto("tick", "t5_read")
    /\ UNCHANGED <<locks, locals, pending_indirect_pings, acked, membervars>>
    /\ last_op' = TaskStep
    /\ UNCHANGED <<poolvars, connvars, codecvars, check_tasks, join, cluster, peer>>

\* lines 459-477: member_list.read(), then backend_pool.read(); the local
\* info is read and both guards go out of scope
t5_read ==
    /\ pc["tick"] = "t5_read"
    /\ Locked("tick")
    /\ Free("backend_pool", "read")
    /\ Goto("tick", "t5_send")
    /\ UNCHANGED <<locks, locals, pending_pings, pending_indirect_pings, acked, membervars>>
    /\ TaskFrame

\* lines 479-499: the Ping is encoded and sent; only a failed send takes the
\* target out of pending_pings again
SendOutcomes == {"sent", "not_encoded", "not_sent"}
t5_send(outcome) ==
    /\ pc["tick"] = "t5_send"
    /\ IF outcome = "not_sent"
       THEN /\ Goto("tick", "t5_unpend")
            /\ UNCHANGED locals
       ELSE /\ Goto("tick", "idle")
            /\ locals' = [locals EXCEPT !["tick"] = NoLocals]
    /\ UNCHANGED <<locks, pending_pings, pending_indirect_pings, acked, membervars>>
    /\ last_op' = [op |-> "send_ping", target_id |-> locals["tick"].target_id,
                   outcome |-> outcome]
    /\ UNCHANGED <<poolvars, connvars, codecvars, datavars>>

\* lines 496-497
t5_unpend ==
    /\ pc["tick"] = "t5_unpend"
    /\ Locked("tick")
    /\ pending_pings' = pending_pings \ {locals["tick"].target_id}
    /\ Goto("tick", "idle")
    /\ locals' = [locals EXCEPT !["tick"] = NoLocals]
    /\ UNCHANGED <<locks, pending_indirect_pings, acked, membervars>>
    /\ last_op' = [op |-> "unpend", target_id |-> locals["tick"].target_id,
                   outcome |-> "not_sent"]
    /\ tick_pinged' = Unpinged({locals["tick"].target_id})
    /\ UNCHANGED <<poolvars, connvars, codecvars, check_tasks, join, cluster, peer>>

\* time passes for the rounds in pending_indirect_pings: started_at.elapsed()
\* grows, from below check_timeout (0) past it (PastCheck) and past
\* hard_timeout (PastHard)
probe_time ==
    /\ \E id \in DOMAIN pending_indirect_pings : pending_indirect_pings[id].age < PastHard
    /\ pending_indirect_pings' =
          [id \in DOMAIN pending_indirect_pings |->
              [pending_indirect_pings[id] EXCEPT !.age = Min(@ + 1, PastHard)]]
    /\ UNCHANGED <<locks, pc, locals, pending_pings, acked, membervars>>
    /\ TaskFrame

\* the steps of the tick loop after check_suspect_timeouts and the pruning
NextProbeRound ==
    \/ t3_lock_pi
    \/ t3_loop
    \/ t3_lock_ml
    \/ t4_lock_pd
    \/ t4_lock_pi
    \/ t4_read_ml
    \/ t4_loop
    \/ sip_read_ml
    \/ sip_lock_pi
    \/ sip_read_ml2
    \/ sip_send
    \/ t5_lock_ml
    \/ t5_lock_pd
    \/ t5_read
    \/ \E outcome \in SendOutcomes : t5_send(outcome)
    \/ t5_unpend
    \/ probe_time

\* the node among two peers: the receive loop against the tick loop
NextProbe ==
    \/ \E from \in Peers : rx_ack(from)
    \/ ra_lock_ml
    \/ \E target_id \in Peers, target_responded \in BOOLEAN :
          rx_indirect_ack(target_id, target_responded)
    \/ ria_lock_ml
    \/ ria_lock_pd
    \/ \E prune \in BOOLEAN : tick_start(prune)
    \/ t2_lock_ml
    \/ t2_lock_pi
    \/ NextProbeRound

\* the node among two peers, one of which asks it to probe: a helper task
\* against the receive loop and the ticks between two prunings
Asker == "n1"
NextHelper ==
    \/ \E from \in Peers : rx_ack(from)
    \/ ra_lock_ml
    \/ \E h \in Helpers, target_id \in {LocalId, Asker} : rx_indirect_ping(h, target_id)
    \/ \E h \in Helpers : h_lock_pd(h)
    \/ \E h \in Helpers : h_send_ping(h)
    \/ \E h \in Helpers : h_check(h)
    \/ \E h \in Helpers : h_send_ack(h)
    \/ tick_start(FALSE)
    \/ NextProbeRound

\* ---------------------------------------------------------------------
\* The health prober (health/mod.rs) and the selection step of the proxy
\* tasks (proxy/mod.rs), which share the backend pool
\* ---------------------------------------------------------------------

\* what a TCP connect under the timeout can come to in check_backend
ProbeOutcomes == {"connected", "refused", "timeout"}

\* check_backend: only a connect that succeeded within the timeout is healthy
CheckBackend(outcome) == outcome = "connected"

\* the name under which the k-th spawned task holds a guard
ProbeTask(k) == IF k = 1 THEN "p1" ELSE IF k = 2 THEN "p2" ELSE "p3"

\* the tasks check_all_backends spawns: one per backend of the snapshot
CheckTask(k, addr) ==
    [id |-> k, addr |-> addr, pc |-> "check_backend", is_healthy |-> FALSE, calls |-> 0]
SpawnedTwice(bs) ==
    [k \in 1..(2 * Len(bs)) |-> CheckTask(k, bs[((k - 1) % Len(bs)) + 1].addr)]
Spawned(bs) == [k \in 1..Len(bs) |-> CheckTask(k, bs[k].addr)]

\* the probes that have not finished
InFlight == {k \in 1..Len(check_tasks) : check_tasks[k].pc # "done"}

\* run: the loop leaves check_all_backends once no JoinHandle is left
RoundOverAtOnce(ts) == TRUE
RoundOver(ts) == ts = <<>>

DataFrame ==
    /\ last_op' = TaskStep
    /\ UNCHANGED <<membervars, connvars, codecvars,
                   pending_pings, pending_indirect_pings, acked, tick_pinged, join, cluster, peer>>

\* run: interval.tick() fires and check_all_backends is entered
hc_tick ==
    /\ pc["hc"] = "idle"
    /\ Goto("hc", "hc_read")
    /\ UNCHANGED <<poolvars, locks, locals, check_tasks>>
    /\ DataFrame

\* check_all_backends: the snapshot under the pool guard, then one task
\* spawned per backend
hc_read ==
    /\ pc["hc"] = "hc_read"
    /\ Locked("hc")
    /\ check_tasks' = check_tasks \o Spawned(backends)
    /\ Goto("hc", "hc_join")
    /\ UNCHANGED <<poolvars, locks, locals>>
    /\ DataFrame

\* the spawned task: check_backend(addr, timeout).await
check_backend(k, outcome) ==
    /\ k \in 1..Len(check_tasks)
    /\ check_tasks[k].pc = "check_backend"
    /\ LET i == FindBackend(backends, check_tasks[k].addr)
       IN  i # 0 =>
              IF CheckBackend(outcome)
              THEN backends[i].consecutive_successes < MaxCount
              ELSE backends[i].consecutive_failures < MaxCount
    /\ check_tasks' = [check_tasks EXCEPT ![k] =
                          [@ EXCEPT !.pc = "p_lock", !.is_healthy = CheckBackend(outcome)]]
    /\ UNCHANGED <<poolvars, locks, pc, locals>>
    /\ DataFrame

\* the spawned task: the pool guard is awaited
p_lock(k) ==
    /\ k \in 1..Len(check_tasks)
    /\ check_tasks[k].pc = "p_lock"
    /\ Free("backend_pool", "lock")
    /\ locks' = Acquire(locks, "backend_pool", ProbeTask(check_tasks[k].id), "lock")
    /\ check_tasks' = [check_tasks EXCEPT ![k] = [@ EXCEPT !.pc = "p_update"]]
    /\ UNCHANGED <<poolvars, pc, locals>>
    /\ DataFrame

\* the spawned task: pool.update_health(addr, is_healthy), then the guard
\* is dropped and the task ends
p_update(k) ==
    /\ k \in 1..Len(check_tasks)
    /\ check_tasks[k].pc = "p_update"
    /\ backends' = UpdateHealth(backends, check_tasks[k].addr, check_tasks[k].is_healthy)
    /\ probe_hist' = [probe_hist EXCEPT ![check_tasks[k].addr] =
                         IF check_tasks[k].is_healthy THEN "success" ELSE "failure"]
    /\ locks' = ReleaseAll(locks, ProbeTask(check_tasks[k].id))
    /\ check_tasks' = [check_tasks EXCEPT ![k] =
                          [@ EXCEPT !.pc = "done", !.calls = @ + 1]]
    /\ UNCHANGED <<current_index, pc, locals>>
    /\ DataFrame

\* check_all_backends: the loop that awaits every JoinHandle in turn
hc_join ==
    /\ pc["hc"] = "hc_join"
    /\ IF RoundOver(check_tasks)
       THEN /\ Goto("hc", "idle")
            /\ UNCHANGED check_tasks
       ELSE /\ check_tasks # <<>>
            /\ Head(check_tasks).pc = "done"
            /\ check_tasks' = Tail(check_tasks)
            /\ UNCHANGED pc
    /\ UNCHANGED <<poolvars, locks, locals>>
    /\ DataFrame

\* Proxy::run: a client is accepted and handle_connection is spawned
sel_accept(c) ==
    /\ pc[c] = "idle"
    /\ Goto(c, "sel_lock")
    /\ UNCHANGED <<poolvars, locks, locals, check_tasks>>
    /\ DataFrame

\* handle_connection: the pool guard is awaited
sel_lock(c) ==
    /\ pc[c] = "sel_lock"
    /\ Locked(c)
    /\ locks' = WithGuard(c)
    /\ Goto(c, "sel_select")
    /\ UNCHANGED <<poolvars, locals, check_tasks>>
    /\ DataFrame

\* handle_connection: pool.select_backend() moves the cursor, then the
\* guard is dropped at the end of the block
sel_select(c) ==
    /\ pc[c] = "sel_select"
    /\ current_index' = SelectBackend(backends, current_index).index
    /\ locks' = ReleaseAll(locks, c)
    /\ Goto(c, "idle")
    /\ UNCHANGED <<backends, probe_hist, locals, check_tasks>>
    /\ DataFrame

NextData ==
    \/ hc_tick
    \/ hc_read
    \/ \E k \in 1..Len(BackendAddrs), outcome \in ProbeOutcomes : check_backend(k, outcome)
    \/ \E k \in 1..Len(BackendAddrs) : p_lock(k)
    \/ \E k \in 1..Len(BackendAddrs) : p_update(k)
    \/ hc_join
    \/ \E c \in Clients : sel_accept(c)
    \/ \E c \in Clients : sel_lock(c)
    \/ \E c \in Clients : sel_select(c)

\* ---------------------------------------------------------------------
\* Joining the cluster (gossip/layer.rs, join_cluster) as main calls it:
\* before the receive loop and the tick loop are spawned
\* ---------------------------------------------------------------------

\* the seed lists of the configuration, as addresses; n0 is the local one
SeedLists == {<<>>, <<"n0">>, <<"n1">>, <<"n0", "n1">>, <<"n1", "n2">>, <<"n2", "n0", "n1">>}

max_retries == 3

\* `for retry in 0..max_retries`
RetriesLeftMutant(retry) == retry < max_retries + 1
RetriesLeft(retry) == retry < max_retries

JoinFrame ==
    /\ last_op' = TaskStep
    /\ UNCHANGED <<poolvars, connvars, codecvars, locks, pc, locals, pending_pings,
                   pending_indirect_pings, acked, tick_pinged, check_tasks, cluster, peer>>

\* lines 504-514: the call; an empty seed list returns Ok at once
join_cluster(seed_nodes) ==
    /\ join.pc = "start"
    /\ join' = IF seed_nodes = <<>>
               THEN [join EXCEPT !.pc = "done", !.result = "Ok"]
               ELSE [join EXCEPT !.pc = "round", !.seed_nodes = seed_nodes]
    /\ UNCHANGED membervars
    /\ JoinFrame

\* lines 515-526 and 575-586: the head of `for retry in 0..max_retries`, with
\* the break on successful_contacts, and the return after the loop
join_round ==
    /\ join.pc = "round"
    /\ join' = IF RetriesLeft(join.retry) /\ join.successful_contacts = 0
               THEN [join EXCEPT !.pc = "seed", !.seed = 1, !.rounds = @ + 1]
               ELSE [join EXCEPT !.pc = "done", !.result = "Ok"]
    /\ UNCHANGED membervars
    /\ JoinFrame

\* lines 527-557: the next seed; the local address is skipped, any other is
\* sent a Ping, and a failed send is only logged
join_seed(sent) ==
    /\ join.pc = "seed"
    /\ Free("member_list", "read")
    /\ join' =
          IF join.seed > Len(join.seed_nodes)
          THEN [join EXCEPT !.pc = "round", !.retry = @ + 1]
          ELSE IF join.seed_nodes[join.seed] = AddrOf[member_list.local_member.id]
          THEN [join EXCEPT !.seed = @ + 1]
          ELSE [join EXCEPT !.pc = "check", !.contacts = @ + 1,
                            !.contacted = IF sent THEN @ \cup {join.seed_nodes[join.seed]}
                                          ELSE @]
    /\ UNCHANGED membervars
    /\ JoinFrame

\* lines 558-572: after the sleep of one second the member list is counted;
\* a member other than the local one ends both loops
join_check ==
    /\ join.pc = "check"
    /\ Free("member_list", "read")
    /\ LET known_members == Cardinality(GetAllMembers(member_list))
       IN  join' = IF known_members > 0
                   THEN [join EXCEPT !.pc = "round", !.retry = @ + 1,
                                     !.successful_contacts = known_members]
                   ELSE [join EXCEPT !.pc = "seed", !.seed = @ + 1,
                                     !.successful_contacts = known_members]
    /\ UNCHANGED membervars
    /\ JoinFrame

\* a seed that was sent a Ping answers: its Ack waits in the socket
seed_answers(s) ==
    /\ s \in join.contacted \ join.inbox
    /\ join' = [join EXCEPT !.inbox = @ \cup {s}]
    /\ UNCHANGED membervars
    /\ JoinFrame

\* main.rs 63-73: run is spawned once join_cluster has returned; it takes an
\* Ack from the socket and its handler records the sender as Alive
run_recv(s) ==
    /\ join.pc = "done"
    /\ s \in join.inbox
    /\ Free("member_list", "write")
    /\ join' = [join EXCEPT !.inbox = @ \ {s}]
    /\ \E perm \in ShuffleChoices(member_list, {s}) :
          MemberWrite(MarkAlive(UpsertMember(member_list, Member(s, "Alive", 0), perm), s),
                      ClockCleared(s))
    /\ JoinFrame

NextJoin ==
    \/ \E seed_nodes \in SeedLists : join_cluster(seed_nodes)
    \/ join_round
    \/ \E sent \in BOOLEAN : join_seed(sent)
    \/ join_check
    \/ \E s \in RemoteIds : seed_answers(s)
    \/ \E s \in RemoteIds : run_recv(s)

\* ---------------------------------------------------------------------
\* Two proxies of one cluster and one backend that both probe and gossip
\* about (backend/pool.rs and GossipLayer::process_backend_updates)
\* ---------------------------------------------------------------------

Proxies == {"P1", "P2"}

\* the counters are compared with 0 and with the threshold 2 only, so they
\* are kept up to MaxCount
Saturated(bh) ==
    [bh EXCEPT !.consecutive_successes = Min(@, MaxCount),
               !.consecutive_failures = Min(@, MaxCount)]

\* get_backend_health_updates: what a proxy says about the backend
SaysHealthy(bh) == bh.status = "Healthy"

ClusterFrame ==
    /\ last_op' = TaskStep
    /\ UNCHANGED <<poolvars, membervars, connvars, codecvars, locks, pc, locals,
                   pending_pings, pending_indirect_pings, acked, tick_pinged, check_tasks, join, peer>>

\* from some moment on the probes of every proxy give the same result
cl_settle(verdict) ==
    /\ cluster.verdict = "none"
    /\ cluster' = [cluster EXCEPT !.verdict = verdict]
    /\ ClusterFrame

\* the health prober of proxy p: update_health with the result of its probe
cl_probe(p, is_healthy) ==
    /\ cluster.verdict # "none" => is_healthy = (cluster.verdict = "up")
    /\ cluster' = [cluster EXCEPT !.health[p] = Saturated(Probe(@, is_healthy))]
    /\ ClusterFrame

\* a Ping or Ack of proxy from reaches proxy to: process_backend_updates
\* applies what the sender recorded when it built the message
cl_gossip(from, to) ==
    /\ from # to
    /\ cluster' = [cluster EXCEPT !.health[to] =
                      Reconcile(@, SaysHealthy(cluster.health[from]))]
    /\ ClusterFrame

\* one second passes on every proxy
cl_second ==
    /\ \E p \in Proxies : cluster.health[p].elapsed_local < MaxElapsed
    /\ cluster' = [cluster EXCEPT !.health =
                      [p \in Proxies |-> [@[p] EXCEPT !.elapsed_local = Min(@ + 1, MaxElapsed)]]]
    /\ ClusterFrame

NextCluster ==
    \/ \E verdict \in {"up", "down"} : cl_settle(verdict)
    \/ \E p \in Proxies, is_healthy \in BOOLEAN : cl_probe(p, is_healthy)
    \/ \E from, to \in Proxies : cl_gossip(from, to)
    \/ cl_second

\* ---------------------------------------------------------------------
\* A Ping of the local node to the peer n1 and the Ack that answers it
\* (gossip/layer.rs, handle_message); n1 runs the same program
\* ---------------------------------------------------------------------

PeerId == "n1"

\* MemberList::get_member_updates: the first max_count entries of the map
GetMemberUpdates(ml, max_count) ==
    [i \in 1..Min(Len(ml.order), max_count) |-> UpdateOf(ml.members[ml.order[i]].member)]

\* std::cmp::max(5, members.get_all_members().len() / 2)
UpdateLimit(ml) ==
    IF Cardinality(GetAllMembers(ml)) \div 2 > 5 THEN Cardinality(GetAllMembers(ml)) \div 2 ELSE 5

\* the record that a list holds of a member: its state, or "none"
RecordOf(ml, id) == IF id \in DOMAIN ml.members THEN ml.members[id].member.state ELSE "none"

\* the ids that a sequence of updates is about
IdsOf(updates) == {updates[i].member_id : i \in 1..Len(updates)}

\* a Ping arm that leaves the sender to the updates it carries
HandlePingMutant(ml, msg, perm) == ProcessMemberUpdates(ml, msg.member_updates, perm)

\* handle_message, Ping arm, lines 114-125: the updates, then the sender
HandlePing(ml, msg, perm) ==
    UpsertMember(ProcessMemberUpdates(ml, msg.member_updates, perm),
                 Member(msg.from, "Alive", msg.incarnation), perm)

\* handle_message, Ack arm, lines 172-186: the sender, then the updates
HandleAck(ml, msg, perm) ==
    ProcessMemberUpdates(
        MarkAlive(UpsertMember(ml, Member(msg.from, "Alive", msg.incarnation), perm), msg.from),
        msg.member_updates, perm)

\* what the updates of a message do to the incarnation of the node
Disputes(ml, updates) == Cardinality(Accusations(ml, updates))

TripFrame ==
    UNCHANGED <<poolvars, connvars, codecvars, locks, pc, locals,
                pending_indirect_pings, acked, tick_pinged, check_tasks, join, cluster>>

\* a third node tells the local node what it holds about n1, or accuses the
\* local node (the incarnation of an accusation is not looked at); no rumour
\* about n1 is ahead of the incarnation n1 has reached
a_hears(update) ==
    /\ peer.wire = <<>>
    /\ update.member_id = PeerId => update.incarnation <= peer.member_list.local_member.incarnation
    /\ update.member_id = LocalId =>
          IsAccusation(member_list, update) /\ update.incarnation = 0
    /\ process_member_updates(<<update>>)

\* the same at n1
b_hears(update) ==
    /\ peer.wire = <<>>
    /\ update.member_id = PeerId =>
          IsAccusation(peer.member_list, update) /\ update.incarnation = 0
    /\ update.member_id = LocalId => update.incarnation <= member_list.local_member.incarnation
    /\ peer.member_list.local_member.incarnation + Disputes(peer.member_list, <<update>>) <= MaxInc
    /\ \E perm \in ShuffleChoices(peer.member_list, {update.member_id}) :
          peer' = [peer EXCEPT !.member_list = ProcessMemberUpdates(@, <<update>>, perm)]
    /\ last_op' = [op |-> "b_hears"]
    /\ UNCHANGED <<membervars, pending_pings>>
    /\ TripFrame

\* join_cluster, lines 528-549: the Ping of a node that has just started,
\* with empty lists and without an entry in pending_pings
a_join_ping ==
    /\ peer.wire = <<>>
    /\ member_list = MemberListNew(Member(LocalId, "Alive", 0))
    /\ peer' = [peer EXCEPT !.wire = <<[kind |-> "Ping", from |-> LocalId,
                                        incarnation |-> member_list.local_member.incarnation,
                                        member_updates |-> <<>>]>>,
                            !.was = RecordOf(peer.member_list, LocalId)]
    /\ last_op' = [op |-> "join_ping"]
    /\ UNCHANGED <<membervars, pending_pings>>
    /\ TripFrame

\* the tick loop, lines 449-499: the rotation gives n1, which enters
\* pending_pings, and the Ping carries the updates of the local list
a_tick_ping ==
    /\ peer.wire = <<>>
    /\ LET r == GetRandomAliveMember(member_list)
       IN  /\ r.result = PeerId
           /\ r.cursor <= MaxProbeCursor
           /\ MemberWrite([member_list EXCEPT !.cursor = r.cursor], suspect_clock)
    /\ pending_pings' = pending_pings \cup {PeerId}
    /\ peer' = [peer EXCEPT !.wire = <<[kind |-> "Ping", from |-> LocalId,
                                        incarnation |-> member_list.local_member.incarnation,
                                        member_updates |->
                                            GetMemberUpdates(member_list, UpdateLimit(member_list))]>>,
                            !.was = RecordOf(peer.member_list, LocalId)]
    /\ last_op' = [op |-> "tick_ping"]
    /\ TripFrame

\* n1 handles the Ping, lines 105-156: the Ack carries its incarnation and
\* the updates of its list; a send that fails ends the handler with the error
b_handle_ping(sent) ==
    /\ peer.wire # <<>>
    /\ peer.wire[1].kind = "Ping"
    /\ peer.member_list.local_member.incarnation
          + Disputes(peer.member_list, peer.wire[1].member_updates) <= MaxInc
    /\ \E perm \in ShuffleChoices(peer.member_list,
                                  IdsOf(peer.wire[1].member_updates) \cup {LocalId}) :
          LET ml == HandlePing(peer.member_list, peer.wire[1], perm)
          IN  peer' = [peer EXCEPT
                          !.member_list = ml,
                          !.wire = IF sent
                                   THEN <<[kind |-> "Ack", from |-> PeerId,
                                           incarnation |-> ml.local_member.incarnation,
                                           member_updates |->
                                               GetMemberUpdates(ml, UpdateLimit(ml))]>>
                                   ELSE <<>>]
    /\ last_op' = [op |-> "handle_ping", sent |-> sent]
    /\ UNCHANGED <<membervars, pending_pings>>
    /\ TripFrame

\* the local node handles the Ack, lines 158-188
a_handle_ack ==
    /\ peer.wire # <<>>
    /\ peer.wire[1].kind = "Ack"
    /\ member_list.local_member.incarnation
          + Disputes(member_list, peer.wire[1].member_updates) <= MaxInc
    /\ pending_pings' = pending_pings \ {peer.wire[1].from}
    /\ \E perm \in ShuffleChoices(member_list,
                                  IdsOf(peer.wire[1].member_updates) \cup {PeerId}) :
          MemberWrite(HandleAck(member_list, peer.wire[1], perm),
                      [id \in MemberIds |->
                          IF id \in IdsOf(peer.wire[1].member_updates) \cup {PeerId}
                          THEN <<>> ELSE suspect_clock[id]])
    /\ peer' = [peer EXCEPT !.wire = <<>>]
    /\ last_op' = [op |-> "handle_ack", from |-> peer.wire[1].from,
                   incarnation |-> peer.wire[1].incarnation,
                   was |-> RecordOf(member_list, PeerId),
                   pending |-> PeerId \in pending_pings]
    /\ TripFrame

\* what a third node may say: a state of n1 or of the local node
Rumours ==
    {UpdateOf(Member(id, state, incarnation)) :
        id \in {LocalId, PeerId}, state \in MemberStates, incarnation \in 0..MaxInc}

NextTrip ==
    \/ \E update \in Rumours : a_hears(update)
    \/ \E update \in Rumours : b_hears(update)
    \/ a_join_ping
    \/ a_tick_ping
    \/ \E sent \in BOOLEAN : b_handle_ping(sent)
    \/ a_handle_ack

MemberInit ==
    /\ member_list = MemberListNew(Member(LocalId, "Alive", 0))
    /\ suspect_clock = NoClock
    /\ returned = <<>>

PoolInit ==
    /\ \E n \in 0..Len(BackendAddrs) : backends = BackendPoolNew(n)
    /\ current_index = 0
    /\ probe_hist = [a \in AnyAddr |-> "none"]

Init ==
    /\ PoolInit
    /\ MemberInit
    /\ ConnInit
    /\ CodecInit
    /\ ProbeInit
    /\ last_op = NoOp

NextPool ==
    \/ select_backend
    \/ \E addr \in AnyAddr, is_healthy \in BOOLEAN : update_health(addr, is_healthy)
    \/ \E addr \in AnyAddr, is_healthy \in BOOLEAN :
          apply_backend_update([backend_addr |-> addr, is_healthy |-> is_healthy])
    \/ pool_second

SpecPool == Init /\ [][NextPool]_vars

\* the node and one peer: received messages with their piggy-backed updates
NearIds == {LocalId, "n1"}
Updates(ids, incarnations) ==
    {[member_id |-> id, addr |-> AddrOf[id], state |-> st, incarnation |-> inc] :
        id \in ids, st \in MemberStates, inc \in incarnations}
\* the piggy-backed member_updates of one message: get_member_updates maps
\* over the values of the sender's member map, so no two are about the same id
Batches(ids, incarnations) ==
    {updates \in UNION {[1..n -> Updates(ids, incarnations)] : n \in 1..Cardinality(ids)} :
        \A i, j \in 1..Len(updates) : updates[i].member_id = updates[j].member_id => i = j}

NextGossipIn ==
    \/ \E id \in NearIds, inc \in 0..MaxInc : upsert_member(Member(id, "Alive", inc))
    \/ \E updates \in Batches(NearIds, 0..MaxInc) : process_member_updates(updates)

SpecGossipIn == Init /\ [][NextGossipIn]_vars

\* the failure detector's view of one peer as time passes
NextTimeouts ==
    \/ \E id \in NearIds, inc \in 0..MaxInc : upsert_member(Member(id, "Alive", inc))
    \/ \E id \in NearIds : mark_alive(id)
    \/ \E id \in NearIds \ {LocalId} : mark_suspect(id)
    \/ check_suspect_timeouts
    \/ prune_dead_members(PruneHorizon)
    \/ member_tick

SpecTimeouts == Init /\ [][NextTimeouts]_vars

\* the rotation over three peers whose states change by gossip
NextRotation ==
    \/ \E update \in Updates(RemoteIds, {0}) : process_member_updates(<<update>>)
    \/ get_random_alive_member

SpecRotation == Init /\ [][NextRotation]_vars

SpecConn == Init /\ [][NextConn]_vars

SpecCodec == Init /\ [][NextCodec]_vars

\* the gossip tasks of a node that was built with all its backends
TasksInit == Init /\ backends = BackendPoolNew(Len(BackendAddrs))

SpecProbe == TasksInit /\ [][NextProbe]_vars

SpecHelper == TasksInit /\ [][NextHelper]_vars

\* a 30th tick against the receive loop, which learns by the member updates
\* of a message that a peer is Dead: process_member_updates takes the write
\* lock of the member list for as long as it runs, lines 309-329
rx_updates(updates) ==
    /\ pc["rx"] = "idle"
    /\ Free("member_list", "write")
    /\ process_member_updates(updates)

NextPrune ==
    \/ \E from \in Peers : rx_ack(from)
    \/ ra_lock_ml
    \/ \E id \in Peers : rx_updates(<<UpdateOf(Member(id, "Dead", 0))>>)
    \/ \E prune \in BOOLEAN : tick_start(prune)
    \/ t2_lock_ml
    \/ t2_lock_pi
    \/ NextProbeRound

SpecPrune == TasksInit /\ [][NextPrune]_vars

\* failure detection among peers that fall silent: a peer answers the Ping by
\* which the node comes to know it and nothing after that; the tick loop runs
\* at every interval, with the pruning that resets the cursor at some of
\* them, and time passes
Mute == "n1"
NextDetect ==
    \/ \E from \in Peers :
          /\ from \notin DOMAIN member_list.members
          /\ rx_ack(from)
    \/ ra_lock_ml
    \/ \E prune \in BOOLEAN : tick_start(prune)
    \/ t2_lock_ml
    \/ t2_lock_pi
    \/ NextProbeRound
    \/ member_tick
TickLoop ==
    \/ \E prune \in BOOLEAN : tick_start(prune)
    \/ t2_lock_ml
    \/ t2_lock_pi
    \/ NextProbeRound /\ pc["tick"] # "idle"
DetectFairness ==
    /\ WF_vars(TickLoop)
    /\ WF_vars(ra_lock_ml)
    /\ WF_vars(probe_time)
    /\ WF_vars(member_tick)
SpecDetect == TasksInit /\ [][NextDetect]_vars /\ DetectFairness

\* a peer that fell silent: datagrams of Gone itself arrive only as long as
\* the local node does not hold it Dead, while the other peers, which hold it
\* Dead as well, go on to carry it in the member updates of their messages
Gone == "n1"
GoneHeldDead == Gone \in DOMAIN member_list.members /\ member_list.members[Gone].member.state = "Dead"
NextSilent ==
    \/ \E incarnation \in 0..1 :
          /\ ~GoneHeldDead
          /\ upsert_member(Member(Gone, "Alive", incarnation))
    \/ mark_suspect(Gone)
    \/ check_suspect_timeouts
    \/ member_tick
    \/ prune_dead_members(PruneHorizon)
    \/ \E incarnation \in 0..1 :
          process_member_updates(<<UpdateOf(Member(Gone, "Dead", incarnation))>>)
\* the tick loop runs for ever and time passes
SilentFairness ==
    /\ WF_vars(member_tick)
    /\ WF_vars(check_suspect_timeouts)
    /\ WF_vars(prune_dead_members(PruneHorizon))
SpecSilent == Init /\ [][NextSilent]_vars /\ SilentFairness

\* the cluster under its schedule: every prober keeps probing, every proxy
\* keeps sending to every other, time passes, and the probes settle
ClusterFairness ==
    /\ \A p \in Proxies : WF_vars(\E is_healthy \in BOOLEAN : cl_probe(p, is_healthy))
    /\ \A from, to \in Proxies : WF_vars(cl_gossip(from, to))
    /\ WF_vars(cl_second)
    /\ WF_vars(\E verdict \in {"up", "down"} : cl_settle(verdict))
SpecCluster == Init /\ [][NextCluster]_vars /\ ClusterFairness

\* the local node and n1 between rumours of a third node, and the round
\* trips of a Ping of the local node
SpecTrip == TasksInit /\ [][NextTrip]_vars

\* the start of the node: join_cluster, then the receive loop
SpecJoin == TasksInit /\ [][NextJoin]_vars
\* the runtime polls the future of join_cluster until it is ready
JoinStep ==
    \/ \E seed_nodes \in SeedLists : join_cluster(seed_nodes)
    \/ join_round
    \/ \E sent \in BOOLEAN : join_seed(sent)
    \/ join_check
SpecJoinFair == SpecJoin /\ WF_vars(JoinStep)

\* the prober's rounds against the selections of two accepted clients
SpecData == Init /\ [][NextData]_vars

\* the same under the scheduling of the runtime: a task that can step does
\* step, and the pool guard is handed out in the order it was asked for, so
\* no waiter is passed over for ever
DataFairness ==
    /\ \A k \in 1..Len(BackendAddrs) :
           /\ WF_vars(\E outcome \in ProbeOutcomes : check_backend(k, outcome))
           /\ SF_vars(p_lock(k))
           /\ WF_vars(p_update(k))
    /\ \A c \in Clients : WF_vars(sel_select(c))
    /\ WF_vars(hc_join)
SpecDataFair == SpecData /\ DataFairness

Next ==
    NextPool \/ NextGossipIn \/ NextTimeouts \/ NextRotation \/ NextConn \/ NextCodec
        \/ NextProbe \/ NextHelper \/ NextData \/ NextJoin \/ NextSilent
        \/ NextCluster \/ NextTrip \/ NextPrune \/ NextDetect

Spec == Init /\ [][Next]_vars

\* ------------------------------------------------------------------------
\* Properties of the backend pool
\* ------------------------------------------------------------------------

HealthyAddrs == {backends[i].addr : i \in {j \in 1..Len(backends) : backends[j].status = "Healthy"}}

\* C1: select_backend never returns an Unhealthy backend, and it returns
\* nothing if and only if no backend of the pool is Healthy.
C1_SelectionSafety ==
    last_op.op = "select_backend" =>
        /\ last_op.result # "None" => last_op.result \in HealthyAddrs
        /\ last_op.result = "None" <=> HealthyAddrs = {}

\* C1 witness: a selection that had to skip an Unhealthy backend and wrap
\* around to return the Healthy one behind the cursor.
C1_Witness ==
    /\ last_op.op = "select_backend"
    /\ Len(backends) = 2
    /\ backends[2].status = "Unhealthy"
    /\ last_op.start = 1
    /\ last_op.result = "b1"
    /\ current_index = 1

Polarity(is_healthy) == IF is_healthy THEN "success" ELSE "failure"

\* C2: under every interleaving of local probes and gossiped updates, an
\* update_health call changes a backend's status only when the previous
\* local probe of that backend had the same polarity (so a single probe
\* result never flips the status), and then only towards that polarity.
C2_Debounce ==
    [][\A i \in 1..Len(backends) :
          (last_op'.op = "update_health" /\ backends'[i].status # backends[i].status)
              => /\ last_op'.addr = backends[i].addr
                 /\ probe_hist[backends[i].addr] = Polarity(last_op'.is_healthy)
                 /\ backends'[i].status =
                        (IF last_op'.is_healthy THEN "Healthy" ELSE "Unhealthy")]_vars

\* C2 witness: the second consecutive failed probe of b1 has just flipped it
\* to Unhealthy.
C2_Witness ==
    /\ Len(backends) >= 1
    /\ last_op.op = "update_health"
    /\ last_op.addr = "b1"
    /\ ~last_op.is_healthy
    /\ last_op.flipped
    /\ backends[1].status = "Unhealthy"
    /\ backends[1].consecutive_failures = 2
    /\ probe_hist["b1"] = "failure"

\* C3: inside the trust-local window (less than 6 s since the last local
\* probe) a gossiped "healthy" update leaves the backend's status and
\* counters as they are; in particular Unhealthy stays Unhealthy.
C3_TrustLocalDominance ==
    [][\A i \in 1..Len(backends) :
          (/\ last_op'.op = "apply_backend_update"
           /\ last_op'.is_healthy
           /\ last_op'.addr = backends[i].addr
           /\ backends[i].elapsed_local < TRUST_LOCAL_SECS)
              => backends'[i] = backends[i]]_vars

\* C3 witness: a gossiped "healthy" has just been processed for an Unhealthy
\* backend probed 5 s ago, and the backend is still Unhealthy.
C3_Witness ==
    /\ Len(backends) = 2
    /\ last_op.op = "apply_backend_update"
    /\ last_op.addr = "b2"
    /\ last_op.is_healthy
    /\ backends[2].status = "Unhealthy"
    /\ backends[2].elapsed_local = 5
    /\ ~last_op.flipped
    /\ probe_hist["b2"] = "failure"

\* ------------------------------------------------------------------------
\* Properties of the member list
\* ------------------------------------------------------------------------

Known == DOMAIN member_list.members
IncarnationOf(ml, id) == ml.members[id].member.incarnation
StateOf(ml, id) == ml.members[id].member.state

\* C4: the incarnation recorded for a member that stays in the list never
\* decreases, and neither does the local node's own incarnation.
C4_IncarnationMonotone ==
    [][/\ \A id \in Known \cap DOMAIN member_list'.members :
              IncarnationOf(member_list', id) >= IncarnationOf(member_list, id)
       /\ member_list'.local_member.incarnation >= member_list.local_member.incarnation]_vars

\* C5: when a received batch of member updates holds an accusation (an
\* update about the local id with state Suspect or Dead), the local
\* incarnation strictly increases, the local member and its entry stay
\* Alive, and the accusation is not applied: after it the local entry carries
\* the local incarnation, and a batch of accusations alone changes nothing
\* but the two copies of the local incarnation.
C5_SelfPreservation ==
    [][(last_op'.op = "process_member_updates" /\ last_op'.accusations > 0)
          => /\ member_list'.local_member.incarnation
                    > member_list.local_member.incarnation
             /\ member_list'.local_member.state = "Alive"
             /\ LocalId \in DOMAIN member_list'.members
             /\ StateOf(member_list', LocalId) = "Alive"
             /\ last_op'.ends_accused =>
                    IncarnationOf(member_list', LocalId)
                        = member_list'.local_member.incarnation
             /\ last_op'.only_accusations =>
                    member_list' =
                        [member_list EXCEPT
                            !.local_member.incarnation = @ + last_op'.accusations,
                            !.members[LocalId].member.incarnation =
                                member_list.local_member.incarnation
                                    + last_op'.accusations]]_vars

\* C5 witness: a batch of two updates, one of them an accusation, has been
\* processed; the local incarnation has grown and the local entry is Alive.
C5_Witness ==
    /\ last_op.op = "process_member_updates"
    /\ last_op.accusations = 1
    /\ last_op.size = 2
    /\ member_list.local_member.incarnation = 2
    /\ StateOf(member_list, LocalId) = "Alive"
    /\ "n1" \in Known
    /\ StateOf(member_list, "n1") = "Dead"

AlivePeers ==
    {id \in Known : StateOf(member_list, id) = "Alive" /\ id # member_list.local_member.id}

Window(seq, from, n) == [i \in 1..n |-> seq[from + i - 1]]

\* C6: while the member list is otherwise untouched and holds N Alive peers,
\* any N consecutive calls of get_random_alive_member return every Alive
\* peer exactly once (and with no Alive peer every call returns nothing).
C6_RotationFairness ==
    LET n == Cardinality(AlivePeers)
    IN  IF n = 0
        THEN \A i \in 1..Len(returned) : returned[i] = "None"
        ELSE \A from \in 1..(Len(returned) - n + 1) :
                {Window(returned, from, n)[i] : i \in 1..n} = AlivePeers

\* C6 witness: two Alive peers with a Dead peer and the local entry between
\* them in the order, the cursor not at the head, and three calls made.
C6_Witness ==
    /\ Len(returned) = 3
    /\ Len(member_list.order) = 4
    /\ member_list.order[2] = LocalId
    /\ StateOf(member_list, member_list.order[1]) = "Alive"
    /\ StateOf(member_list, member_list.order[3]) = "Dead"
    /\ StateOf(member_list, member_list.order[4]) = "Alive"
    /\ returned[1] = member_list.order[4]
    /\ member_list.cursor = 4 + 4

\* C10: when mark_suspect has made an Alive peer Suspect, more than
\* suspect_timeout has passed since with no other operation on that peer,
\* and check_suspect_timeouts has just run, the peer is Dead.
C10_SuspectTimesOut ==
    \A id \in RemoteIds :
        (/\ last_op.op = "check_suspect_timeouts"
         /\ suspect_clock[id] # <<>>
         /\ suspect_clock[id][1] > suspect_timeout)
            => id \in Known /\ StateOf(member_list, id) = "Dead"

\* C10 witness: check_suspect_timeouts has just run while n1 had been Suspect
\* by mark_suspect for suspect_timeout + 1 time units.
C10_Witness ==
    /\ last_op.op = "check_suspect_timeouts"
    /\ suspect_clock["n1"] = <<suspect_timeout + 1>>
    /\ StateOf(member_list, "n1") = "Dead"

\* ------------------------------------------------------------------------
\* Properties of the connection pool
\* ------------------------------------------------------------------------

\* C7: for every backend address, the number of idle connections held in the
\* connection pool never exceeds max_size_per_backend, whatever the
\* interleaving of the steps of concurrent get and return_connection calls.
C7_PoolCeiling ==
    \A backend \in DOMAIN pools : Len(pools[backend]) <= max_size_per_backend

\* C7 witness: two tasks took connections to b1 concurrently; the pool of b1
\* is at its ceiling and a return_connection has just dropped its connection.
C7_Witness ==
    /\ last_op.op = "return_connection"
    /\ last_op.backend = "b1"
    /\ last_op.dropped
    /\ Len(pools["b1"]) = max_size_per_backend

\* ------------------------------------------------------------------------
\* Properties of the message codec
\* ------------------------------------------------------------------------

SendSites ==
    {"reply_ack", "tick_ping", "helper_ping", "indirect_ack", "send_indirect_pings", "join_ping"}

\* C8: every datagram handed to the UDP socket, at each of the send sites, is
\* at most 1400 bytes long, and when the message to send encodes to more than
\* 1400 bytes the encoding fails and nothing is sent.
C8_MtuCeiling ==
    /\ \A i \in 1..Len(socket) : socket[i].len <= MAX_UDP_PACKET_SIZE
    /\ (last_op.op \in SendSites /\ last_op.size > MAX_UDP_PACKET_SIZE) => socket = <<>>

\* C8 witness: the Ping of a tick still encoded to more than 1400 bytes, the
\* encoding failed and no datagram went out.
C8_Witness ==
    /\ last_op.op = "tick_ping"
    /\ last_op.size > MAX_UDP_PACKET_SIZE
    /\ ~last_op.encoded
    /\ socket = <<>>

\* C9: for every Ping or Ack with any piggy-backed member_updates and
\* backend_updates, the encoded size of trim_to_fit(msg) is at most 1400
\* bytes.
C9_TrimFits ==
    \A i \in 1..Len(trimmed) : EstimatedSize(trimmed[i]) <= MAX_UDP_PACKET_SIZE

\* ------------------------------------------------------------------------
\* Invariants of the member list
\* ------------------------------------------------------------------------

\* C11: in every reachable state of the member list an entry has suspect_at
\* set if and only if its state is Suspect, however it became Suspect.
C11_SuspectAtIffSuspect ==
    \A id \in Known :
        (member_list.members[id].suspect_at # <<>>) <=> (StateOf(member_list, id) = "Suspect")


\* C13: after every member-list operation the rotation order holds exactly
\* the ids that are keys of the mapping, each of them once.
C13_OrderIsKeys ==
    /\ RangeOf(member_list.order) = Known
    /\ IsInjective(member_list.order)

\* C13 witness: prune_dead_members has just removed n1, which an upsert had
\* inserted, and the order is back to the local id alone.
C13_Witness ==
    /\ last_op.op = "prune_dead_members"
    /\ last_op.pruned = {"n1"}
    /\ member_list.order = <<LocalId>>
    /\ Known = {LocalId}

StateRank(state) == CASE state = "Alive" -> 0 [] state = "Suspect" -> 1 [] state = "Dead" -> 2

\* C14: an upsert_member of a known member with the recorded incarnation
\* changes the recorded state only towards the more pessimistic in the order
\* Alive < Suspect < Dead.  Where upsert_member is the only writer, a state
\* that changes under an unchanged incarnation is such an upsert.
C14_EqualIncarnationPessimism ==
    [][\A id \in Known \cap DOMAIN member_list'.members :
          IncarnationOf(member_list', id) = IncarnationOf(member_list, id)
              => StateRank(StateOf(member_list', id)) >= StateRank(StateOf(member_list, id))]_vars

\* ------------------------------------------------------------------------
\* Gossip against local truth in the backend pool
\* ------------------------------------------------------------------------

\* C18: when the last local probe of a backend succeeded less than 6 s ago
\* and the backend is recorded Healthy with consecutive_failures = 0, a
\* gossiped "unhealthy" update about it is ignored: the status stays Healthy.
C18_GossipRespectsLocalTruth ==
    [][\A i \in 1..Len(backends) :
          (/\ last_op'.op = "apply_backend_update"
           /\ ~last_op'.is_healthy
           /\ last_op'.addr = backends[i].addr
           /\ probe_hist[backends[i].addr] = "success"
           /\ backends[i].elapsed_local < TRUST_LOCAL_SECS
           /\ backends[i].status = "Healthy"
           /\ backends[i].consecutive_failures = 0)
              => backends'[i].status = "Healthy"]_vars

\* ------------------------------------------------------------------------
\* False-accusation recovery, seen from the accusing node
\* ------------------------------------------------------------------------

\* C19: when the node records a peer as Suspect or Dead at incarnation i and
\* a Ping or Ack from that peer arrives with an incarnation above i, the
\* upsert of the sender leaves the peer recorded Alive at the new incarnation;
\* and a step whose updates about a peer all carry an incarnation below the
\* recorded one (as every update at i or less does after the recovery) leaves
\* the record of that peer as it is.
C19_AccusationRecovery ==
    [][\A id \in (Known \cap DOMAIN member_list'.members) \ {LocalId} :
          /\ (/\ last_op'.op = "upsert_member"
              /\ last_op'.id = id
              /\ StateOf(member_list, id) \in {"Suspect", "Dead"}
              /\ \A inc \in last_op'.carried[id] : inc > IncarnationOf(member_list, id))
                 => /\ StateOf(member_list', id) = "Alive"
                    /\ last_op'.carried[id] = {IncarnationOf(member_list', id)}
          /\ (/\ last_op'.op \in {"upsert_member", "process_member_updates"}
              /\ \A inc \in last_op'.carried[id] : inc < IncarnationOf(member_list, id))
                 => member_list'.members[id] = member_list.members[id]]_vars

\* C19 witness: a Ping of n1 with incarnation 1 has just been handled while
\* n1 was recorded Dead at incarnation 0, and n1 is Alive at incarnation 1.
C19_Witness ==
    /\ last_op.op = "upsert_member"
    /\ last_op.was = <<Member("n1", "Dead", 0)>>
    /\ last_op.carried["n1"] = {1}
    /\ StateOf(member_list, "n1") = "Alive"
    /\ IncarnationOf(member_list, "n1") = 1


\* ------------------------------------------------------------------------
\* The tasks of the gossip layer
\* ------------------------------------------------------------------------

C15_NoDeadlock == ~Deadlocked

\* C16: a task that holds pending_pings, pending_indirect_pings or the write
\* lock of the member list neither hands a datagram to the socket nor waits
\* for another lock
C16_NoSendOrWaitUnderLock ==
    \A task \in GossipTasks :
        (\/ Holds(task, "pending_pings", "lock")
         \/ Holds(task, "pending_indirect_pings", "lock")
         \/ Holds(task, "member_list", "write"))
            => (pc[task] \notin SendPositions /\ ~Blocked(task))

\* C17: the IndirectAck of a helper says target_responded exactly when an Ack
\* of the target came during the helper's wait
C17_RespondedIffAcked ==
    \A h \in Helpers :
        pc[h] = "h_send_ack" => (locals[h].target_responded <=> acked[h])

C29_TrustLocalUnhealthy ==
    [][\A i \in 1..Len(backends) :
          (/\ last_op'.op = "apply_backend_update"
           /\ last_op'.addr = backends[i].addr
           /\ backends[i].elapsed_local < TRUST_LOCAL_SECS)
              => IF /\ ~last_op'.is_healthy
                    /\ backends[i].status = "Healthy"
                    /\ backends[i].consecutive_failures = 0
                 THEN backends'[i].status = "Unhealthy"
                 ELSE backends'[i] = backends[i]]_vars

\* C29 witness: a gossiped "unhealthy" has just made b1 Unhealthy 2 s after
\* a local probe of b1 succeeded.
C29_Witness ==
    /\ Len(backends) >= 1
    /\ last_op.op = "apply_backend_update"
    /\ last_op.addr = "b1"
    /\ ~last_op.is_healthy
    /\ last_op.flipped
    /\ backends[1].status = "Unhealthy"
    /\ backends[1].elapsed_local = 2
    /\ probe_hist["b1"] = "success"

\* C30: an apply_backend_update that changes the status of a backend sets its
\* counters to (consecutive_successes, consecutive_failures) = (2, 0) for
\* Healthy and (0, 2) for Unhealthy, and one that does not change the status
\* leaves the counters; and the local probe that follows a change, when of
\* the opposite polarity, leaves the status as the update set it.
C30_CountersAfterGossip ==
    [][\A i \in 1..Len(backends) :
          /\ (last_op'.op = "apply_backend_update" /\ last_op'.addr = backends[i].addr)
                => IF backends'[i].status # backends[i].status
                   THEN /\ backends'[i].consecutive_successes =
                               (IF backends'[i].status = "Healthy" THEN 2 ELSE 0)
                        /\ backends'[i].consecutive_failures =
                               (IF backends'[i].status = "Healthy" THEN 0 ELSE 2)
                   ELSE /\ backends'[i].consecutive_successes = backends[i].consecutive_successes
                        /\ backends'[i].consecutive_failures = backends[i].consecutive_failures
          /\ (/\ last_op.op = "apply_backend_update"
              /\ last_op.flipped
              /\ last_op.addr = backends[i].addr
              /\ last_op'.op = "update_health"
              /\ last_op'.addr = backends[i].addr
              /\ last_op'.is_healthy # last_op.is_healthy)
                => backends'[i].status = backends[i].status]_vars

\* C30 witness: a gossiped "healthy" has just made b2 Healthy, more than 6 s
\* after the local probe of b2 that failed; the counters stand at (2, 0).
C30_Witness ==
    /\ Len(backends) = 2
    /\ last_op.op = "apply_backend_update"
    /\ last_op.addr = "b2"
    /\ last_op.is_healthy
    /\ last_op.flipped
    /\ backends[2].status = "Healthy"
    /\ backends[2].consecutive_successes = 2
    /\ backends[2].consecutive_failures = 0
    /\ backends[2].elapsed_local >= TRUST_LOCAL_SECS
    /\ probe_hist["b2"] = "failure"

\* ------------------------------------------------------------------------
\* What the connection pool hands out and takes back
\* ------------------------------------------------------------------------

\* C24: get never hands out a pooled connection that is closed or that has
\* unread data on it: the connection a get has just reused holds nothing to
\* read and is open.
C24_NoStaleReuse ==
    (last_op.op = "get_pop" /\ last_op.result = "reused")
        => tasks[last_op.task].stream = "idle"

\* C25: a backend connection is on its way to the pool only after a splice
\* that ended with the EOF of the client: a task in return_connection never
\* comes from a splice that ended with the EOF of the backend or with an
\* error of a read or a write.
C25_PooledOnlyAfterCleanClose ==
    \A t \in Tasks :
        tasks[t].pc \in {"return", "return_check", "return_push"}
            => tasks[t].ended = "client_eof"

\* C25 witness: task 1 is about to push its connection to b1, which came
\* from a splice that ended with the EOF of the client, and the splice of
\* task 2 has just ended with the EOF of the backend: task 2 is back at the
\* start and its connection dropped.
C25_Witness ==
    /\ tasks[1].pc = "return_push"
    /\ tasks[1].backend = "b1"
    /\ tasks[1].has_room
    /\ tasks[1].ended = "client_eof"
    /\ last_op = [op |-> "copy_with_pooling", task |-> 2, event |-> "backend_eof"]
    /\ tasks[2] = IdleTask

\* ---------------------------------------------------------------------
\* The pool guard on the data path, and the rounds of the health prober
\* ---------------------------------------------------------------------

\* C26: selecting a backend never takes an exclusive lock on the pool, and a
\* selection is never blocked by a concurrent health update or by another
\* selection.
C26_SelectionTakesNoExclusiveLock ==
    \A c \in Clients :
        /\ ~Holds(c, "backend_pool", "lock")
        /\ ~Blocked(c)

\* the probe task with this id has been spawned and has not finished / has finished
ProbeRunning(i) == \E k \in 1..Len(check_tasks) : check_tasks[k].id = i /\ check_tasks[k].pc # "done"
ProbeDone(i) == \E k \in 1..Len(check_tasks) : check_tasks[k].id = i /\ check_tasks[k].pc = "done"

ProbeRoundsInv ==
    /\ Cardinality(InFlight) <= Len(backends)
    /\ \A j, k \in 1..Len(check_tasks) :
           check_tasks[j].addr = check_tasks[k].addr => j = k
    /\ pc["hc"] \in {"idle", "hc_read"} => check_tasks = <<>>
    /\ \A k \in 1..Len(check_tasks) :
           check_tasks[k].calls = IF check_tasks[k].pc = "done" THEN 1 ELSE 0

\* C27: at no time are more probes in flight than there are backends and no
\* backend has two probes; a new round starts only when every probe of the
\* round before has been joined; a probe calls update_health exactly once,
\* as its last step; and every probe that was spawned completes, whatever
\* its connect came to.
C27_ProbeRounds ==
    /\ []ProbeRoundsInv
    /\ \A i \in 1..Len(BackendAddrs) : ProbeRunning(i) ~> ProbeDone(i)

C27_Witness ==
    /\ pc["hc"] = "hc_join"
    /\ Len(check_tasks) = 2
    /\ check_tasks[1].pc = "done" /\ ~check_tasks[1].is_healthy /\ check_tasks[1].calls = 1
    /\ check_tasks[2].pc = "p_update" /\ check_tasks[2].is_healthy
    /\ probe_hist["b1"] = "failure"
    /\ probe_hist["b2"] = "success"

\* ---------------------------------------------------------------------
\* Joining the cluster
\* ---------------------------------------------------------------------

\* a step of join_cluster that sends a Ping to a seed
JoinContact == join'.contacts = join.contacts + 1

JoinInv ==
    /\ join.rounds <= 3
    /\ join.contacts <= 3 * Len(join.seed_nodes)
    /\ join.result \in {"none", "Ok"}
    /\ join.pc = "done" =>
          /\ join.result = "Ok"
          /\ join.seed_nodes = <<>> => join.rounds = 0

\* C28: join_cluster returns, and returns Ok, after at most three rounds over
\* the seed list, whether or not a seed was reached or answers; and no seed is
\* sent a Ping at a moment when the member list holds a member other than the
\* local one.
C28_JoinTerminates ==
    /\ []JoinInv
    /\ <>(join.pc = "done")
    /\ [][JoinContact => GetAllMembers(member_list) = {}]_vars

C28_Witness ==
    /\ join.pc = "done"
    /\ join.result = "Ok"
    /\ join.seed_nodes = <<"n2", "n0", "n1">>
    /\ join.rounds = 3
    /\ join.contacts = 6
    /\ join.contacted = {}
    /\ GetAllMembers(member_list) = {}

\* ---------------------------------------------------------------------
\* Forgetting a dead peer
\* ---------------------------------------------------------------------

\* C22: a member that is held Dead and from which no further datagram
\* arrives is eventually pruned from the member list, also while other peers
\* keep sending member updates about it.
C22_DeadIsPruned == GoneHeldDead ~> (Gone \notin DOMAIN member_list.members)

\* ---------------------------------------------------------------------
\* Convergence of the health views
\* ---------------------------------------------------------------------

Agree == \A p, q \in Proxies : cluster.health[p].status = cluster.health[q].status

\* C23: once the probes of every proxy give the same stable result, the
\* proxies eventually record the same status for the backend and keep it.
C23_Convergence == <>[]Agree

\* ---------------------------------------------------------------------
\* The round trip of a Ping
\* ---------------------------------------------------------------------

C40_CountersFitStatus ==
    \A i \in 1..Len(backends) :
        /\ backends[i].status = "Healthy" => backends[i].consecutive_failures <= 1
        /\ backends[i].status = "Unhealthy" => backends[i].consecutive_successes <= 1

C40_Witness ==
    /\ Len(backends) = 2
    /\ backends[1].status = "Healthy"
    /\ backends[1].consecutive_failures = 1
    /\ backends[2].status = "Unhealthy"
    /\ backends[2].consecutive_successes = 1
    /\ probe_hist["b1"] = "failure"
    /\ last_op = [op |-> "update_health", addr |-> "b2", is_healthy |-> TRUE,
                  flipped |-> FALSE]

\* ---------------------------------------------------------------------
\* The local entry of the member list
\* ---------------------------------------------------------------------

\* C39: the incarnation and the address that the mapping stores for the
\* local id are those of the local member, after any received message.
C39_LocalEntryMirrorsLocal ==
    LocalId \in DOMAIN member_list.members =>
        /\ member_list.members[LocalId].member.incarnation
              = member_list.local_member.incarnation
        /\ member_list.members[LocalId].member.addr = member_list.local_member.addr


\* C36: a remote member that enters the member list enters it in state Alive,
\* whatever the state that the Ping, Ack or MemberUpdate announcing it carries.
C36_DiscoveredAlive ==
    [][\A id \in MemberIds \ {LocalId} :
          (id \notin DOMAIN member_list.members /\ id \in DOMAIN member_list'.members)
              => member_list'.members[id].member.state = "Alive"]_vars


\* C38: when the tick loop is through with step 5 and the Ping of the tick was
\* not sent (it could not be encoded, or the send failed), the target is not
\* left in pending_direct_pings.
C38_PendingOnlyIfSent ==
    (/\ pc["tick"] = "idle"
     /\ last_op.op \in {"send_ping", "unpend"}
     /\ last_op.outcome # "sent")
        => last_op.target_id \notin pending_pings


\* C37: the tick loop starts an indirect round only for the peer that its own
\* step 5 recorded and pinged in the tick before and that has not answered; a
\* peer that a helper task put into pending_direct_pings for another node is
\* not escalated.
C37_EscalatesOwnPingsOnly ==
    [][\A id \in MemberIds :
          (id \notin DOMAIN pending_indirect_pings /\ id \in DOMAIN pending_indirect_pings')
              => id = tick_pinged]_vars


\* C33: the pruning step of a 30th tick leaves pending_indirect_pings without
\* an entry for a member that prune_dead_members took out of the list, and
\* with every entry of a member that is still in the list.
PruneStep == pc["tick"] = "t2_lock_pi" /\ pc'["tick"] = "t3_lock_pi"
C33_PruneDropsEntriesOfPruned ==
    [][PruneStep =>
          /\ \A id \in DOMAIN pending_indirect_pings' : id \in DOMAIN member_list.members
          /\ \A id \in DOMAIN pending_indirect_pings :
                id \in DOMAIN member_list.members
                    => /\ id \in DOMAIN pending_indirect_pings'
                       /\ pending_indirect_pings'[id] = pending_indirect_pings[id]]_vars


\* C31: when step 4 of a tick ends, pending_direct_pings is empty and every
\* peer that was in it and is a known member has an indirect round in
\* pending_indirect_pings, one that began with no responses at the time of
\* the step, however many Alive peers there are to probe for it.
Step4Ends == pc["tick"] = "t4_loop" /\ pc'["tick"] = "t5_lock_ml"
RoundRegistered == pc["tick"] = "sip_lock_pi" /\ pc'["tick"] = "sip_read_ml2"
C31_MissesGetARound ==
    [][/\ Step4Ends =>
            /\ pending_pings' = {}
            /\ \A id \in pending_pings :
                  id \in GetAllMembers(member_list) => id \in DOMAIN pending_indirect_pings'
       /\ RoundRegistered =>
            pending_indirect_pings'[locals["tick"].target_id] = [responses |-> <<>>, age |-> 0]]_vars


\* C32: the tick loop decides a pending indirect round (removes it, with or
\* without mark_suspect) only when the round is past check_timeout and has
\* either as many responses as probers are asked or is past hard_timeout; it
\* calls mark_suspect for the target exactly when no response of the round
\* is positive, and the round is removed in either case.
MarksSuspect(id) ==
    /\ pc["tick"] = "t3_lock_ml"
    /\ pc'["tick"] = "t3_loop"
    /\ locals["tick"].target_id = id
Decided(id) ==
    /\ id \in DOMAIN pending_indirect_pings
    /\ \/ pc["tick"] = "t3_loop" /\ id \notin DOMAIN pending_indirect_pings'
       \/ MarksSuspect(id)
C35_AckAfterRefutation ==
    last_op.op = "handle_ping" =>
        /\ Len(peer.wire) = 1
        /\ peer.wire[1].kind = "Ack"
        /\ peer.wire[1].from = PeerId
        /\ peer.wire[1].incarnation = peer.member_list.local_member.incarnation


\* C34: a peer that the tick loop has pinged and that answers nothing from
\* then on, directly or through a prober, is in the end Suspect, and Dead
\* once suspect_timeout has passed, also when the node knows no other Alive
\* peer that could probe for it.
PingedMute ==
    /\ last_op = [op |-> "send_ping", target_id |-> Mute, outcome |-> "sent"]
    /\ Mute \in pending_pings
MuteHeld(states) ==
    Mute \in DOMAIN member_list.members => member_list.members[Mute].member.state \in states
TickLoopRuns == []<>(pc["tick"] = "idle")
C34_DetectionCompletes ==
    TickLoopRuns =>
        /\ PingedMute ~> MuteHeld({"Suspect", "Dead"})
        /\ PingedMute ~> MuteHeld({"Dead"})

====
